---- MODULE Spec2Model ----
(***************************************************************************)
(* The crawl queue (storage/database.py, table crawl_queue) and the        *)
(* hierarchical traverser that drains it (api/traversal.py).               *)
(*                                                                         *)
(* The table is a set of rows.  Every DatabaseManager method opens its own *)
(* sqlite connection and runs one statement, so each method call is one    *)
(* atomic step; what a traverser does between two calls is interleaved     *)
(* with the calls of the other traversers that share the database file.    *)
(* A row's url is its key; record_id is the last path segment of the url   *)
(* and is not kept apart from it.                                          *)
(*                                                                         *)
(* The API client (api/client.py) is a retry loop over single requests     *)
(* guarded by two request counters; the traverser fetches each record      *)
(* through it, and other threads may call the same client object.          *)
(***************************************************************************)
EXTENDS Integers, Sequences, FiniteSets, TLC

\* ---------------------------------------------------------------- bounds
NumWorkers == 2
MaxRuns == 2
MaxClock == 1
MaxCap == 1
\* max_retries, the argument of reset_failed_items (3 when it is left out)
MaxRetries == 2

\* ------------------------------------------------------ program constants
CO_DEPARTMENT_ID == "C57"

Keys == {"C57", "C243", "C244"}
Workers == 1..NumWorkers
Traverser == 1
NULL == "NULL"

\* The remote catalogue: the child listing returned for each node.  A listing
\* is a list, so it may repeat a child, name the parent itself, or close a
\* cycle.
TreeCatalogue ==
    [k \in Keys |-> IF k = "C57" THEN <<"C243", "C244">> ELSE <<>>]
CycleCatalogue ==
    [k \in Keys |-> CASE k = "C57" -> <<"C243">>
                      [] k = "C243" -> <<"C244">>
                      [] OTHER -> <<"C57", "C244">>]
RepeatCatalogue ==
    [k \in Keys |-> CASE k = "C57" -> <<"C243", "C244", "C243">>
                      [] k = "C243" -> <<"C244">>
                      [] OTHER -> <<>>]
Catalogues == {TreeCatalogue, CycleCatalogue, RepeatCatalogue}
\* A root with one leaf.
PairCatalogue ==
    [k \in Keys |-> IF k = "C57" THEN <<"C243">> ELSE <<>>]

\* What one _process_record call can come to.
FetchFailures == {"notfound", "transient"}

VARIABLES
    queue,          \* the rows of crawl_queue
    clock,          \* CURRENT_TIMESTAMP, in seconds
    catalogue,      \* the remote hierarchy
    transportOK,    \* TRUE: every fetch and every child listing succeeds
    scraping,       \* hybrid_client is set (enable_scraping, the default)
    runs,           \* traversal runs started so far
    pc,             \* where each traverser stands
    cap,            \* max_records of the run (0: None)
    cur,            \* queue_item, the row copy the loop is working on
    pending,        \* discovered children not yet offered to the queue
    processed_urls, \* HierarchicalTraverser.processed_urls
    last,           \* the last call a bare client of the table made, and its result
    requests_in_5min,    \* DiscoveryClient.requests_in_5min
    daily_request_count, \* DiscoveryClient.daily_request_count
    window_over,    \* now - last_5min_window >= 300 seconds
    day_over,       \* now >= daily_reset_time + timedelta(days=1)
    sent_in_5min,   \* session.get calls made since last_5min_window was set
    sent_in_day,    \* session.get calls made since daily_reset_time was set
    call,           \* each caller's _make_request in progress
    since_token,    \* tenths of a second since the limits decorator let a call in
    since_dispatch, \* tenths of a second since the last session.get was issued
    memory_cache,   \* IntelligentCache.memory_cache
    cache_entries,  \* the rows of cache_entries in cache.db
    current_time,   \* time.time() as the cache reads it, in hours
    reader,         \* each caller's cache operation in progress, or its result
    records,        \* the rows of the records table
    cursors,        \* the last PaginationCursor encode or decode, and its result
    page,           \* what the last paginate_records call came to
    scan,           \* an iterate_all_records loop
    batch_requests,      \* the BatchRequest objects made by add_*_request
    priority_queues,     \* high_, medium_ and low_priority_queue, by level
    pending_requests,    \* BatchRequestManager.pending_requests (its keys)
    completed_results,   \* BatchRequestManager.completed_results
    processing           \* the step of _process_batches, and its batch

ledgerVars == <<requests_in_5min, daily_request_count, window_over, day_over,
                sent_in_5min, sent_in_day>>
clientVars == <<ledgerVars, call>>
tableVars == <<queue, clock, catalogue, transportOK, scraping, runs, pc, cap, cur,
               pending, processed_urls, last>>

paceVars == <<since_token, since_dispatch>>
cacheVars == <<memory_cache, cache_entries, current_time, reader>>
pageVars == <<records, cursors, page, scan>>
\* What the crawl queue, the traverser and the request ledger leave alone.
batchVars == <<batch_requests, priority_queues, pending_requests, completed_results,
               processing>>
libVars == <<paceVars, cacheVars, pageVars, batchVars>>

vars == <<queue, clock, catalogue, transportOK, scraping, clientVars, runs, pc, cap, cur,
          pending, processed_urls, last, clientVars, libVars>>

NoItem == [url |-> NULL, expected_level |-> NULL]
NoCall == [op |-> NULL, url |-> NULL, ok |-> FALSE]
\* No request in progress.  A request in progress stands before the limit
\* checks ("admit"), inside session.get ("inflight"), or has returned or
\* raised ("done"); trace lists the exception classes caught and retried,
\* slept the time.sleep arguments, sent counts its session.get calls, outcome
\* is what the transport answered to the last of them.
NoOutcome == [kind |-> NULL, status |-> 0, body |-> NULL]
NoResult == [class |-> NULL, not_found |-> FALSE]
IdleCall == [at |-> "idle", endpoint |-> NULL, attempt |-> 0, trace |-> <<>>,
             slept |-> <<>>, sent |-> 0, outcome |-> NoOutcome,
             result |-> NoResult]
Running == {"loop", "claimed", "processing", "discover"}
\* No run yet, or the way the last run ended: both "break"s of the loop, and a
\* run cut short.
Stopped == {"idle", "capped", "exhausted", "cancelled"}

\* A dict without keys, a table without rows.
EmptyDict == [k \in {} |-> NULL]
\* No cache operation in progress.
NoKey == <<>>
None == [request |-> [endpoint |-> NULL, query |-> 0], version |-> 0]
IdleRead == [at |-> "idle", op |-> NULL, key |-> NoKey, result |-> None, calls |-> 0]
\* No cursor: None, or the empty string.  A cursor string is told by whether
\* it is base64 text, whether what it decodes to is a JSON object, and by the
\* members of that object.
NoString == [b64 |-> FALSE, json |-> FALSE, data |-> EmptyDict]
NoCursor == [timestamp |-> 0, record_id |-> 0, direction |-> NULL]
\* No PaginationCursor call, no paginate_records call, no iterate_all_records
\* loop yet.
NoDecode == [op |-> NULL, cursor |-> NoCursor, string |-> NoString,
             decoded |-> [ok |-> FALSE, cursor |-> NoCursor]]
NoPage == [cursor |-> NoString, order_by |-> NULL, order_direction |-> NULL,
           records |-> <<>>, next_cursor |-> NoString, prev_cursor |-> NoString,
           has_next |-> FALSE, has_prev |-> FALSE, error |-> NULL]
NoScan == [at |-> "idle", cursor |-> NoString, yielded |-> <<>>, start |-> {},
           order_by |-> NULL, order_direction |-> NULL]
\* @limits(calls=1, period=1): the period, in tenths of a second.
Period == 10
\* The requests a run of the batch manager is given, the size of a batch and
\* BatchRequest.max_retries (10 and 3 in the code).
MaxBatchRequests == 2
BatchSize == 2
BatchMaxRetries == 2
RequestIds == 1..MaxBatchRequests
PriorityLevels == 1..3
\* No BatchRequest made under this id yet.  level is the queue the request
\* was last put into; executed counts the _process_single_request calls made
\* for it, searched the batch searches it was part of, results the
\* _complete_request calls.
NoBatchRequest ==
    [added |-> "no", endpoint |-> NULL, priority |-> 0, retries |-> 0, level |-> 0,
     executed |-> 0, searched |-> 0, results |-> 0]
IdleProcessing == [at |-> "idle", batch |-> <<>>]

\* The rate decorator, the cache and the records table before their first use.
LibInit ==
    /\ since_token = Period
    /\ since_dispatch = Period
    /\ memory_cache = EmptyDict
    /\ cache_entries = EmptyDict
    /\ current_time = 0
    /\ reader = [w \in Workers |-> IdleRead]
    /\ records = {}
    /\ cursors = NoDecode
    /\ page = NoPage
    /\ scan = NoScan
    /\ batch_requests = [id \in RequestIds |-> NoBatchRequest]
    /\ priority_queues = [level \in PriorityLevels |-> <<>>]
    /\ pending_requests = {}
    /\ completed_results = EmptyDict
    /\ processing = IdleProcessing

\* ------------------------------------------------------- DatabaseManager
HasUrl(q, url) == \E r \in q : r.url = url

\* crawl_queue is a rowid table: a row inserted gets max(rowid) + 1.
NextRowid(q) ==
    IF q = {} THEN 1
    ELSE (CHOOSE n \in {r.rowid : r \in q} : \A r \in q : r.rowid <= n) + 1

NewRow(q, url, parent_id, expected_level, now) ==
    [url |-> url, status |-> "QUEUED", discovered_at |-> now, retries |-> 0,
     error_message |-> NULL, parent_id |-> parent_id,
     expected_level |-> expected_level, rowid |-> NextRowid(q)]

\* INSERT OR REPLACE in place of INSERT OR IGNORE.
AddToCrawlQueueReplacing(q, url, parent_id, expected_level, now) ==
    {r \in q : r.url # url}
        \cup {NewRow({r \in q : r.url # url}, url, parent_id, expected_level, now)}

\* INSERT OR IGNORE INTO crawl_queue: url is the primary key.
AddToCrawlQueue(q, url, parent_id, expected_level, now) ==
    IF HasUrl(q, url) THEN q
    ELSE q \cup {NewRow(q, url, parent_id, expected_level, now)}

\* cursor.rowcount > 0
AddedToCrawlQueue(q, url) == ~HasUrl(q, url)

\* The same SELECT with "AND retries = 0" added.
NextUntriedCrawlItems(q) ==
    {r \in q : /\ r.status = "QUEUED" /\ r.retries = 0
               /\ \A s \in q : s.status = "QUEUED" /\ s.retries = 0
                               => r.discovered_at <= s.discovered_at}

\* SELECT ... WHERE status = 'QUEUED' ORDER BY discovered_at ASC LIMIT 1:
\* any of the QUEUED rows with the least discovered_at.
NextCrawlItems(q) ==
    {r \in q : /\ r.status = "QUEUED"
               /\ \A s \in q : s.status = "QUEUED"
                               => r.discovered_at <= s.discovered_at}

\* An UPDATE that sets the status and nothing else, whatever the status.
UpdatedRowStatusOnly(r, status, error_message) ==
    [r EXCEPT !.status = status]

UpdatedRow(r, status, error_message) ==
    CASE status = "COMPLETED" ->
            [r EXCEPT !.status = status, !.error_message = error_message]
      [] status = "FAILED" ->
            [r EXCEPT !.status = status, !.retries = r.retries + 1,
                      !.error_message = error_message]
      [] OTHER -> [r EXCEPT !.status = status]

\* UPDATE crawl_queue SET ... WHERE url = ?
UpdateCrawlStatus(q, url, status, error_message) ==
    {IF r.url = url THEN UpdatedRow(r, status, error_message) ELSE r : r \in q}

\* The same UPDATE without "AND retries < ?".
ResetAllFailedRows(q, max_retries) ==
    {IF r.status = "FAILED"
        THEN [r EXCEPT !.status = "QUEUED", !.error_message = NULL]
        ELSE r : r \in q}

\* The same UPDATE with "status IN ('FAILED', 'COMPLETED')".
ResetFinishedRows(q, max_retries) ==
    {IF r.status \in {"FAILED", "COMPLETED"} /\ r.retries < max_retries
        THEN [r EXCEPT !.status = "QUEUED", !.error_message = NULL]
        ELSE r : r \in q}
\* UPDATE ... SET status = 'QUEUED', error_message = NULL
\* WHERE status = 'FAILED' AND retries < ?
ResetFailedRows(q, max_retries) ==
    {IF r.status = "FAILED" /\ r.retries < max_retries
        THEN [r EXCEPT !.status = "QUEUED", !.error_message = NULL]
        ELSE r : r \in q}

\* ------------------------------------------------- HierarchicalTraverser
\* _determine_child_level with a table that stops at Sub-series.
DetermineChildLevelShort(parent_level) ==
    CASE parent_level = "Department" -> "Series"
      [] parent_level = "Series" -> "Sub-series"
      [] OTHER -> "Item"

DetermineChildLevel(parent_level) ==
    CASE parent_level = "Department" -> "Series"
      [] parent_level = "Series" -> "Sub-series"
      [] parent_level = "Sub-series" -> "Sub sub-series"
      [] parent_level = "Sub sub-series" -> "Piece"
      [] parent_level = "Piece" -> "Item"
      [] OTHER -> "Item"

ErrorMessage(outcome) ==
    CASE outcome = "notfound" -> "Record not found"
      [] outcome = "permanent" -> "Permanent error"
      [] outcome = "processing" -> "Processing error"
      [] OTHER -> "Unexpected error"

ProcessedCount(w) == Cardinality(processed_urls[w])

\* An empty table, no traverser running.
InitWith(catalogues, transports, scrapings) ==
    /\ queue = {}
    /\ clock = 0
    /\ catalogue \in catalogues
    /\ transportOK \in transports
    /\ scraping \in scrapings
    /\ runs = 0
    /\ pc = [w \in Workers |-> "idle"]
    /\ cap = [w \in Workers |-> 0]
    /\ cur = [w \in Workers |-> NoItem]
    /\ pending = [w \in Workers |-> <<>>]
    /\ processed_urls = [w \in Workers |-> {}]
    /\ last = NoCall
    /\ requests_in_5min = 0
    /\ daily_request_count = 0
    /\ window_over = FALSE
    /\ day_over = FALSE
    /\ sent_in_5min = 0
    /\ sent_in_day = 0
    /\ call = [w \in Workers |-> IdleCall]
    /\ LibInit

Init == InitWith(Catalogues, BOOLEAN, BOOLEAN)

\* A new process builds a new HierarchicalTraverser (cli/main.py).
BeginRun(w, max_records) ==
    /\ pc[w] \in Stopped
    /\ runs < MaxRuns
    /\ runs' = runs + 1
    /\ cap' = [cap EXCEPT ![w] = max_records]
    /\ cur' = [cur EXCEPT ![w] = NoItem]
    /\ pending' = [pending EXCEPT ![w] = <<>>]
    /\ processed_urls' = [processed_urls EXCEPT ![w] = {}]

StartCoTraversal(w, max_records) ==
    /\ BeginRun(w, max_records)
    /\ queue' = AddToCrawlQueue(queue, CO_DEPARTMENT_ID, NULL, "Department", clock)
    /\ pc' = [pc EXCEPT ![w] = "loop"]
    /\ UNCHANGED <<clock, catalogue, transportOK, scraping, clientVars, libVars, last>>

StartSpecificSeriesTraversal(w, series_id, max_records) ==
    /\ BeginRun(w, max_records)
    /\ queue' = AddToCrawlQueue(queue, series_id, CO_DEPARTMENT_ID, "Series", clock)
    /\ pc' = [pc EXCEPT ![w] = "loop"]
    /\ UNCHANGED <<clock, catalogue, transportOK, scraping, clientVars, libVars, last>>

\* "with self.db_manager as db: db.execute(...)": __enter__ returns the
\* DatabaseManager, which has no execute attribute, so the statement raises
\* AttributeError before any row is touched and before the loop is entered.
ResumeTraversal(w) ==
    /\ pc[w] \in Stopped
    /\ runs < MaxRuns
    /\ runs' = runs + 1
    /\ UNCHANGED <<queue, clock, catalogue, transportOK, scraping, clientVars, libVars, pc, cap, cur, pending,
                   processed_urls, last>>

\* The run is over and its locals with it.
EndRun(w, how) ==
    /\ pc' = [pc EXCEPT ![w] = how]
    /\ cap' = [cap EXCEPT ![w] = 0]
    /\ cur' = [cur EXCEPT ![w] = NoItem]
    /\ pending' = [pending EXCEPT ![w] = <<>>]
    /\ processed_urls' = [processed_urls EXCEPT ![w] = {}]

\* What the loop reads of the row it was given.
QueueItem(r) == [url |-> r.url, expected_level |-> r.expected_level]

\* Top of the loop: the record limit, then get_next_crawl_item.
GetNextCrawlItem(w) ==
    /\ pc[w] = "loop"
    /\ IF cap[w] # 0 /\ ProcessedCount(w) >= cap[w]
          THEN EndRun(w, "capped")
          ELSE IF NextCrawlItems(queue) = {}
          THEN EndRun(w, "exhausted")
          ELSE \E r \in NextCrawlItems(queue) :
                  /\ cur' = [cur EXCEPT ![w] = QueueItem(r)]
                  /\ pc' = [pc EXCEPT ![w] = "claimed"]
                  /\ UNCHANGED <<cap, pending, processed_urls>>
    /\ UNCHANGED <<queue, clock, catalogue, transportOK, scraping, clientVars, libVars, runs, last>>

\* The row in hand: "if url in self.processed_urls" it is written COMPLETED
\* and the loop continues; otherwise it is written PROCESSING.
TakeItem(w) ==
    /\ pc[w] = "claimed"
    /\ IF cur[w].url \in processed_urls[w]
          THEN /\ queue' = UpdateCrawlStatus(queue, cur[w].url, "COMPLETED",
                                              "Already processed")
               /\ pc' = [pc EXCEPT ![w] = "loop"]
               /\ cur' = [cur EXCEPT ![w] = NoItem]
          ELSE /\ queue' = UpdateCrawlStatus(queue, cur[w].url, "PROCESSING", NULL)
               /\ pc' = [pc EXCEPT ![w] = "processing"]
               /\ cur' = cur
    /\ UNCHANGED <<clock, catalogue, transportOK, scraping, clientVars, libVars, runs, cap, pending,
                   processed_urls, last>>

\* _process_record fails (a result without success, or an exception caught by
\* the loop): the row is written FAILED.
RecordFailed(w, outcome) ==
    /\ pc[w] = "processing"
    /\ queue' = UpdateCrawlStatus(queue, cur[w].url, "FAILED", ErrorMessage(outcome))
    /\ pc' = [pc EXCEPT ![w] = "loop"]
    /\ cur' = [cur EXCEPT ![w] = NoItem]
    /\ UNCHANGED <<clock, catalogue, transportOK, scraping, libVars, runs, cap, pending,
                   processed_urls, last>>

FailRecord(w, outcome) ==
    /\ ~transportOK
    /\ RecordFailed(w, outcome)
    /\ UNCHANGED clientVars

\* discover_children_with_fallback: the listing, or nothing when the
\* discovery raised (the exception is logged and swallowed).
HybridDiscoveredChildren(listing, found) ==
    IF found THEN listing ELSE <<>>

\* Without the hybrid client only a Department or a Series is searched for
\* children (search_record_series on the series code of its reference).
ApiDiscoveredChildren(level, listing, found) ==
    IF level \in {"Department", "Series"} /\ found THEN listing ELSE <<>>

\* The child-discovery calls _discover_and_queue_children makes, in order:
\* with the hybrid client discover_children_with_fallback, whose API step is
\* "pass" and which calls scraper.discover_child_records alone; without it
\* search_record_series, for a Department or a Series only.
DiscoveryMethods(hybrid, level) ==
    IF hybrid THEN <<"scraper.discover_child_records">>
    ELSE IF level \in {"Department", "Series"}
       THEN <<"api_client.search_record_series">>
       ELSE <<>>
\* The record is fetched and stored; then its children are looked for.
RecordStored(w, found) ==
    /\ pc[w] = "processing"
    /\ pending' = [pending EXCEPT ![w] =
          IF scraping
             THEN HybridDiscoveredChildren(catalogue[cur[w].url], found)
             ELSE ApiDiscoveredChildren(cur[w].expected_level,
                                        catalogue[cur[w].url], found)]
    /\ pc' = [pc EXCEPT ![w] = "discover"]
    /\ UNCHANGED <<queue, clock, catalogue, transportOK, scraping, libVars, runs, cap, cur,
                   processed_urls, last>>

DiscoverChildren(w, found) ==
    /\ found \/ ~transportOK
    /\ RecordStored(w, found)
    /\ UNCHANGED clientVars

\* One turn of "for child_info in discovered_children".
QueueChild(w) ==
    /\ pc[w] = "discover"
    /\ pending[w] # <<>>
    /\ LET child_id == Head(pending[w])
       IN queue' = IF child_id # cur[w].url
                      THEN AddToCrawlQueue(queue, child_id, cur[w].url,
                               DetermineChildLevel(cur[w].expected_level), clock)
                      ELSE queue
    /\ pending' = [pending EXCEPT ![w] = Tail(pending[w])]
    /\ UNCHANGED <<clock, catalogue, transportOK, scraping, clientVars, libVars, runs, pc, cap, cur,
                   processed_urls, last>>

\* result['success']: count it, remember the url, write COMPLETED.
MarkCompleted(w) ==
    /\ pc[w] = "discover"
    /\ pending[w] = <<>>
    /\ processed_urls' = [processed_urls EXCEPT ![w] = @ \cup {cur[w].url}]
    /\ queue' = UpdateCrawlStatus(queue, cur[w].url, "COMPLETED", NULL)
    /\ pc' = [pc EXCEPT ![w] = "loop"]
    /\ cur' = [cur EXCEPT ![w] = NoItem]
    /\ UNCHANGED <<clock, catalogue, transportOK, scraping, clientVars, libVars, runs, cap, pending, last>>

\* The run is cut short: the process is killed, or a KeyboardInterrupt is
\* raised, which is no Exception, so that "except Exception" in the loop lets
\* it through wherever it is raised.  Nothing is written.
Interrupt(w) ==
    /\ pc[w] \in Running
    /\ EndRun(w, "cancelled")
    /\ UNCHANGED <<queue, clock, catalogue, transportOK, scraping, clientVars, libVars, runs, last>>

ResetFailedItems ==
    /\ queue' = ResetFailedRows(queue, MaxRetries)
    /\ UNCHANGED <<clock, catalogue, transportOK, scraping, clientVars, libVars, runs, pc, cap, cur, pending,
                   processed_urls, last>>

Tick ==
    /\ clock < MaxClock
    /\ clock' = clock + 1
    /\ UNCHANGED <<queue, catalogue, transportOK, scraping, clientVars, libVars, runs, pc, cap, cur, pending,
                   processed_urls, last>>

WorkerStep(w) ==
    \/ GetNextCrawlItem(w)
    \/ TakeItem(w)
    \/ \E outcome \in FetchFailures : FailRecord(w, outcome)
    \/ \E found \in BOOLEAN : DiscoverChildren(w, found)
    \/ QueueChild(w)
    \/ MarkCompleted(w)

\* One traverser at a time (the command line runs a single sequential loop).
\* The series the operator may ask for on the command line.
SeriesIds == {"C57", "C243"}

Next ==
    \/ \E max_records \in {0, MaxCap} : StartCoTraversal(Traverser, max_records)
    \/ \E series_id \in SeriesIds, max_records \in {0, MaxCap} :
          StartSpecificSeriesTraversal(Traverser, series_id, max_records)
    \/ ResumeTraversal(Traverser)
    \/ WorkerStep(Traverser)
    \/ Interrupt(Traverser)
    \/ ResetFailedItems
    \/ Tick

Spec == Init /\ [][Next]_vars

\* The traverser keeps running and every call it makes returns.
FairSpec == Spec /\ WF_vars(WorkerStep(Traverser))

\* ------------------------------------------------------- DiscoveryClient
\* One _make_request is a loop of attempts.  An attempt runs the two limit
\* checks in one step and, if they pass, enters session.get; the answer of
\* the transport is a second step.  time.sleep advances the wall clock only:
\* that five minutes or midnight have gone by is an event of the environment,
\* which may come between any two steps.

\* max_requests_per_5min of the constructor (3000 when it is left out)
MaxRequestsPer5Min == 2
\* the daily limit of _check_daily_limit (3000 in the source)
DailyLimit == 3
\* max_retries as _make_request passes it to _exponential_backoff_retry
MakeRequestMaxRetries == 3
\* session.get calls followed in one window or day
MaxSent == 4

\* What session.get comes to: a response with a status code and a body, or
\* an exception of requests.  A body is JSON, something else, or, on a client
\* error, a text that says "not found".
Statuses == {200, 204, 400, 401, 403, 404, 429, 500, 502, 503}
Response(status, body) == [kind |-> "response", status |-> status, body |-> body]
Raised(kind) == [kind |-> kind, status |-> 0, body |-> NULL]
TransportOutcomes ==
    {Response(st, "json") : st \in Statuses}
      \cup {Response(200, "garbled"), Response(400, "not found")}
      \cup {Raised(k) : k \in {"Timeout", "ConnectionError", "RequestException"}}

Min(a, b) == IF a < b THEN a ELSE b

\* The exception class _make_request_internal raises for an outcome, "OK"
\* when it returns the parsed body.
ClassifyListedOnly(o) ==
    CASE o.kind # "response" -> "TransientError"
      [] o.status = 204 -> "PermanentError"
      [] o.status \in {401, 403} -> "AuthenticationError"
      [] o.status = 404 -> "PermanentError"
      [] o.status = 429 -> "RateLimitError"
      [] o.status \in {500, 503} -> "TransientError"
      [] o.status >= 400 /\ o.status < 500 -> "PermanentError"
      [] o.body = "json" -> "OK"
      [] OTHER -> "ParsingError"

Classify(o) ==
    CASE o.kind # "response" -> "TransientError"
      [] o.status = 204 -> "PermanentError"
      [] o.status \in {401, 403} -> "AuthenticationError"
      [] o.status = 404 -> "PermanentError"
      [] o.status = 429 -> "RateLimitError"
      [] o.status \in {500, 503} -> "TransientError"
      [] o.status >= 400 /\ o.status < 500 -> "PermanentError"
      \* raise_for_status: an HTTPError, caught as a RequestException
      [] o.status >= 500 /\ o.status < 600 -> "TransientError"
      [] o.body = "json" -> "OK"
      [] OTHER -> "ParsingError"

\* "not found" in str(e).lower(), the test get_record makes on a PermanentError
SaysNotFound(o) ==
    \/ o.status \in {204, 404}
    \/ o.status >= 400 /\ o.status < 500 /\ o.body = "not found"

\* The counters are advanced after session.get has returned a response.
Counted(o) == o.kind = "response"

\* random.uniform(0.1, 0.5), in tenths of a second
Jitters == {1, 5}

\* The argument of time.sleep before a retry, in tenths of a second.
FixedBackoffDelay(attempt, jitter) == Min(10 + jitter, 600)
BackoffDelay(attempt, jitter) == Min(10 * 2^attempt + jitter, 600)

NoRetryDelay(class, attempt, jitter) == 0
RetryDelay(class, attempt, jitter) ==
    IF class = "RateLimitError" THEN BackoffDelay(attempt, jitter) ELSE 50

Retried == {"RateLimitError", "TransientError"}

\* An exception of class "class" reaches _exponential_backoff_retry.
Caught(c, class, o, jitter) ==
    IF class \in Retried /\ c.attempt < MakeRequestMaxRetries
       THEN [c EXCEPT !.at = "admit", !.attempt = @ + 1,
                      !.trace = Append(@, class),
                      !.slept = Append(@, RetryDelay(class, c.attempt, jitter))]
       ELSE [c EXCEPT !.at = "done", !.outcome = o,
                      !.result = [class |-> class, not_found |-> SaysNotFound(o)]]

Returned(c, o) ==
    [c EXCEPT !.at = "done", !.outcome = o,
              !.result = [class |-> "OK", not_found |-> FALSE]]

\* _make_request is entered.
NewCall(endpoint) == [IdleCall EXCEPT !.at = "admit", !.endpoint = endpoint]

BeginCall(w, endpoint) ==
    /\ call[w].at = "idle"
    /\ call' = [call EXCEPT ![w] = NewCall(endpoint)]
    /\ UNCHANGED ledgerVars

\* Admit with a daily counter that is cleared at every check, whether or not
\* the day has ended.
AdmitResettingDaily(w, jitter) ==
    /\ call[w].at = "admit"
    /\ sent_in_5min < MaxSent /\ sent_in_day < MaxSent
    /\ LET in5 == IF window_over THEN 0 ELSE requests_in_5min
           ok5 == in5 < MaxRequestsPer5Min
           inDay == IF ok5 THEN 0 ELSE daily_request_count
       IN /\ requests_in_5min' = in5 /\ window_over' = FALSE
          /\ daily_request_count' = inDay /\ day_over' = (day_over /\ ~ok5)
          /\ call' = [call EXCEPT ![w] =
                        IF ok5
                           THEN [@ EXCEPT !.at = "inflight", !.sent = @ + 1]
                           ELSE Caught(@, "RateLimitError", NoOutcome, jitter)]
          /\ sent_in_5min' = (IF window_over THEN 0 ELSE sent_in_5min)
                                + (IF ok5 THEN 1 ELSE 0)
          /\ sent_in_day' = (IF ok5 /\ day_over THEN 0 ELSE sent_in_day)
                                + (IF ok5 THEN 1 ELSE 0)
\* _check_5min_limit, then _check_daily_limit.  A check that raises ends the
\* attempt before session.get is reached.
Admit(w, jitter) ==
    /\ call[w].at = "admit"
    /\ sent_in_5min < MaxSent /\ sent_in_day < MaxSent
    /\ LET in5 == IF window_over THEN 0 ELSE requests_in_5min
           ok5 == in5 < MaxRequestsPer5Min
           inDay == IF ok5 /\ day_over THEN 0 ELSE daily_request_count
           okDay == inDay < DailyLimit
       IN /\ requests_in_5min' = in5
          /\ window_over' = FALSE
          /\ daily_request_count' = inDay
          /\ day_over' = (day_over /\ ~ok5)
          /\ call' = [call EXCEPT ![w] =
                IF ok5 /\ okDay
                   THEN [@ EXCEPT !.at = "inflight", !.sent = @ + 1]
                   ELSE Caught(@, "RateLimitError", NoOutcome, jitter)]
          /\ sent_in_5min' = (IF window_over THEN 0 ELSE sent_in_5min)
                               + (IF ok5 /\ okDay THEN 1 ELSE 0)
          /\ sent_in_day' = (IF ok5 /\ day_over THEN 0 ELSE sent_in_day)
                               + (IF ok5 /\ okDay THEN 1 ELSE 0)

\* session.get returns or raises; the outcome is classified and either
\* returned, retried after a sleep, or raised to the caller.
Respond(w, o, jitter) ==
    /\ call[w].at = "inflight"
    /\ requests_in_5min' = requests_in_5min + (IF Counted(o) THEN 1 ELSE 0)
    /\ daily_request_count' = daily_request_count + (IF Counted(o) THEN 1 ELSE 0)
    /\ call' = [call EXCEPT ![w] =
          IF Classify(o) = "OK" THEN Returned(@, o)
                                ELSE Caught(@, Classify(o), o, jitter)]
    /\ UNCHANGED <<window_over, day_over, sent_in_5min, sent_in_day>>

\* Five minutes have gone by since last_5min_window.
FiveMinutesPass ==
    /\ ~window_over
    /\ window_over' = TRUE
    /\ UNCHANGED <<requests_in_5min, daily_request_count, day_over,
                   sent_in_5min, sent_in_day, call>>

\* The day after daily_reset_time has begun.
MidnightPasses ==
    /\ ~day_over
    /\ day_over' = TRUE
    /\ UNCHANGED <<requests_in_5min, daily_request_count, window_over,
                   sent_in_5min, sent_in_day, call>>

\* The caller has the result or the exception of _make_request.
EndCall(w) ==
    /\ call[w].at = "done"
    /\ call' = [call EXCEPT ![w] = IdleCall]
    /\ UNCHANGED ledgerVars

\* get_record: the record, None ("none") when a PermanentError says "not
\* found", or the exception raised on.
GetRecord(result) ==
    CASE result.class = "OK" -> "record"
      [] result.class = "PermanentError" /\ result.not_found -> "none"
      [] OTHER -> result.class

\* What _process_record makes of the fetch: "record", or the failure its
\* result or its exception reports.  With the hybrid client no record and the
\* exceptions get_record_with_fallback catches lead to the scraper.
ProcessOutcome(hybrid, result, scraped) ==
    LET got == GetRecord(result)
    IN CASE got = "record" -> "record"
         [] hybrid /\ got \in {"none", "PermanentError", "RateLimitError",
                               "TransientError"} ->
                IF scraped THEN "record" ELSE "notfound"
         [] got = "none" -> "notfound"
         [] got = "PermanentError" -> "permanent"
         [] got \in {"RateLimitError", "TransientError"} -> "transient"
         [] OTHER -> "processing"

\* Step 1 of _process_record: the record is asked of the API.
FetchRecord(w) ==
    /\ pc[w] = "processing"
    /\ BeginCall(w, "details")
    /\ UNCHANGED <<tableVars, libVars>>

\* The fetch is over.  A failure is written to the row; a record is stored
\* and its children are looked for, by the scraper or, without the hybrid
\* client and for a Department or a Series, by search_record_series.
ProcessRecord(w, scraped, found) ==
    /\ pc[w] = "processing"
    /\ call[w].at = "done" /\ call[w].endpoint = "details"
    /\ LET out == ProcessOutcome(scraping, call[w].result, scraped)
       IN IF out # "record"
             THEN RecordFailed(w, out) /\ EndCall(w)
             ELSE IF scraping \/ cur[w].expected_level \notin {"Department", "Series"}
             THEN RecordStored(w, found) /\ EndCall(w)
             ELSE /\ call' = [call EXCEPT ![w] = NewCall("search")]
                  /\ UNCHANGED ledgerVars
                  /\ UNCHANGED <<tableVars, libVars>>

\* search_record_series has returned or raised ("except Exception" logs it).
SearchDone(w) ==
    /\ pc[w] = "processing"
    /\ call[w].at = "done" /\ call[w].endpoint = "search"
    /\ RecordStored(w, call[w].result.class = "OK")
    /\ EndCall(w)

ClientStep(w, outcomes, jitters) ==
    \/ \E jitter \in jitters : Admit(w, jitter) /\ UNCHANGED <<tableVars, libVars>>
    \/ \E o \in outcomes, jitter \in jitters :
          Respond(w, o, jitter) /\ UNCHANGED <<tableVars, libVars>>

\* The traverser of the command line, every fetch going through the client.
ClientInit == InitWith({PairCatalogue}, {TRUE}, BOOLEAN)

ClientNext ==
    \/ StartCoTraversal(Traverser, 0)
    \/ GetNextCrawlItem(Traverser)
    \/ TakeItem(Traverser)
    \/ FetchRecord(Traverser)
    \/ ClientStep(Traverser, TransportOutcomes, Jitters)
    \/ \E scraped \in BOOLEAN, found \in BOOLEAN :
          ProcessRecord(Traverser, scraped, found)
    \/ SearchDone(Traverser)
    \/ QueueChild(Traverser)
    \/ MarkCompleted(Traverser)
    \/ FiveMinutesPass /\ UNCHANGED <<tableVars, libVars>>
    \/ MidnightPasses /\ UNCHANGED <<tableVars, libVars>>

ClientSpec == ClientInit /\ [][ClientNext]_vars

\* Several threads calling one client (the batch thread, the health monitor
\* and the main thread share an instance).
RaceOutcomes == {Response(200, "json"), Raised("Timeout")}

ClientRaceNext ==
    \/ \E w \in Workers : BeginCall(w, "details") /\ UNCHANGED <<tableVars, libVars>>
    \/ \E w \in Workers : ClientStep(w, RaceOutcomes, {1})
    \/ \E w \in Workers : EndCall(w) /\ UNCHANGED <<tableVars, libVars>>
    \/ FiveMinutesPass /\ UNCHANGED <<tableVars, libVars>>
    \/ MidnightPasses /\ UNCHANGED <<tableVars, libVars>>

ClientRaceInit == InitWith({PairCatalogue}, {TRUE}, {TRUE})

ClientRaceSpec == ClientRaceInit /\ [][ClientRaceNext]_vars

\* ------------------------------------------- the calls-per-second decorator
\* _make_request is wrapped in @sleep_and_retry @limits(calls=1, period=1): a
\* call of _make_request goes in when a period has passed since the last call
\* that went in, and is held back for the rest of the period otherwise.  The
\* retry loop runs inside the wrapped function.  Time is counted in tenths of
\* a second up to one period; more than a period ago is a period ago.
Latencies == {1, Period}

Later(t, d) == Min(t + d, Period)

\* The time the step of a call takes after its session.get, if it made one,
\* was issued: the time.sleep before the next attempt.
SleptIn(w) ==
    IF Len(call'[w].slept) > Len(call[w].slept)
       THEN call'[w].slept[Len(call'[w].slept)]
       ELSE 0

EnterMakeRequest(w) ==
    /\ BeginCall(w, "details")
    /\ since_token' = 0
    /\ since_dispatch' = IF since_token >= Period
                            THEN since_dispatch
                            ELSE Later(since_dispatch, Period - since_token)

PacedAdmit(w, jitter) ==
    /\ Admit(w, jitter)
    /\ since_token' = Later(since_token, SleptIn(w))
    /\ since_dispatch' = IF call'[w].at = "inflight"
                            THEN 0
                            ELSE Later(since_dispatch, SleptIn(w))

PacedRespond(w, o, jitter, latency) ==
    /\ Respond(w, o, jitter)
    /\ since_token' = Later(since_token, latency + SleptIn(w))
    /\ since_dispatch' = Later(since_dispatch, latency + SleptIn(w))

\* The caller does something else between two calls.
Pause(w) ==
    /\ call[w].at = "idle"
    /\ since_token < Period \/ since_dispatch < Period
    /\ since_token' = Later(since_token, 1)
    /\ since_dispatch' = Later(since_dispatch, 1)
    /\ UNCHANGED clientVars

PaceNext ==
    \/ EnterMakeRequest(Traverser) /\ UNCHANGED <<tableVars, cacheVars, pageVars, batchVars>>
    \/ \E jitter \in {1} :
          PacedAdmit(Traverser, jitter) /\ UNCHANGED <<tableVars, cacheVars, pageVars, batchVars>>
    \/ \E o \in RaceOutcomes, jitter \in {1}, latency \in Latencies :
          PacedRespond(Traverser, o, jitter, latency)
             /\ UNCHANGED <<tableVars, cacheVars, pageVars, batchVars>>
    \/ EndCall(Traverser) /\ UNCHANGED <<tableVars, libVars>>
    \/ Pause(Traverser) /\ UNCHANGED <<tableVars, cacheVars, pageVars, batchVars>>
    \/ /\ call[Traverser].at = "idle"
       /\ FiveMinutesPass /\ since_token' = Period /\ since_dispatch' = Period
       /\ UNCHANGED <<tableVars, cacheVars, pageVars, batchVars>>

PaceSpec == ClientRaceInit /\ [][PaceNext]_vars
\* ------------------------------------------------------- IntelligentCache
\* Two tiers under one key: memory_cache, a dict of at most
\* memory_cache_max_size entries, and the table cache_entries of cache.db.
\* Times are counted in hours.  The three configured lifetimes (24 h, 2 h
\* and 1 h in the code) keep their order.
StaticCacheTtl == 3
RecordCacheTtl == 2
DynamicCacheTtl == 1
MemoryCacheMaxSize == 1
MaxTime == 4

\* f'records/v1/details/{record_id}', the endpoint of get_record
DetailsEndpoint(record_id) ==
    CASE record_id = "C57" -> "records/v1/details/C57"
      [] record_id = "C243" -> "records/v1/details/C243"
      [] OTHER -> "records/v1/details/C244"
\* A request is an endpoint and its parameters; of the parameters only the
\* length of sps.searchQuery matters to the cache.
Endpoints == {"repository/v1/details/A1", DetailsEndpoint(CO_DEPARTMENT_ID),
              "search/v1/records", "browse"}
Requests ==
    {[endpoint |-> e, query |-> 0] : e \in Endpoints \ {"search/v1/records"}}
        \cup {[endpoint |-> "search/v1/records", query |-> n] : n \in {5, 20, 60}}
\* word in endpoint
In(word, endpoint) ==
    CASE endpoint = "repository/v1/details/A1" -> word = "repository"
      [] endpoint \in {DetailsEndpoint(k) : k \in Keys} -> word = "records/v1/details"
      [] endpoint = "search/v1/records" -> word = "search"
      [] OTHER -> FALSE

\* The response to a request as the server words it from a given hour on.
Payload(request, version) == [request |-> request, version |-> version]
Answer(request) == Payload(request, current_time + 1)

\* json.dumps and json.loads of a response body.
JsonDumps(data) == <<"json", data>>
JsonLoads(text) == text[2]

\* md5 of the endpoint and the sorted parameters, taken as free of collisions.
GenerateCacheKey(request) == <<"md5", request.endpoint, request.query>>
CacheKeys == {GenerateCacheKey(r) : r \in Requests}

DetermineCacheType(request) ==
    CASE In("repository", request.endpoint) -> "static"
      [] In("fileauthorities", request.endpoint) -> "static"
      [] In("records/v1/details", request.endpoint) -> "record"
      [] In("search", request.endpoint) ->
            IF request.query > 50 THEN "complex_search" ELSE "dynamic"
      [] OTHER -> "dynamic"

\* _get_ttl_for_type without the doubling for complex searches.
GetTtlForTypeFlat(cache_type) ==
    CASE cache_type = "static" -> StaticCacheTtl
      [] cache_type = "record" -> RecordCacheTtl
      [] OTHER -> DynamicCacheTtl
GetTtlForType(cache_type) ==
    CASE cache_type = "static" -> StaticCacheTtl
      [] cache_type = "record" -> RecordCacheTtl
      [] cache_type = "dynamic" -> DynamicCacheTtl
      [] cache_type = "complex_search" -> DynamicCacheTtl * 2
      [] OTHER -> DynamicCacheTtl

ShouldCache(request) ==
    \/ In("repository", request.endpoint) \/ In("fileauthorities", request.endpoint)
    \/ In("records/v1/details", request.endpoint)
    \/ In("search", request.endpoint) /\ request.query > 10
    \/ In("context", request.endpoint) \/ In("children", request.endpoint)

With(dict, key, value) ==
    [k \in DOMAIN dict \cup {key} |-> IF k = key THEN value ELSE dict[k]]
Without(dict, keys) == [k \in DOMAIN dict \ keys |-> dict[k]]

\* current_time - entry['created_at'] < entry['ttl']
Fresh(entry, now) == now - entry.created_at < entry.ttl

MemoryEntry(data, created_at, ttl) ==
    [data |-> data, created_at |-> created_at, ttl |-> ttl]

\* The store into memory_cache that get and put make "if space available".
Promoted(memory, key, entry) ==
    IF Cardinality(DOMAIN memory) < MemoryCacheMaxSize
       THEN With(memory, key, entry)
       ELSE memory

\* The part of get that reads cache.db: the payload found, if it is fresh,
\* and the two tiers after it.
DiskLookup(memory, disk, key, now) ==
    IF key \in DOMAIN disk
       THEN IF Fresh(disk[key], now)
               THEN [result |-> JsonLoads(disk[key].data),
                     memory |-> Promoted(memory, key,
                                    MemoryEntry(JsonLoads(disk[key].data),
                                                disk[key].created_at, disk[key].ttl)),
                     disk |-> disk]
               ELSE [result |-> None, memory |-> memory, disk |-> Without(disk, {key})]
       ELSE [result |-> None, memory |-> memory, disk |-> disk]

\* get, run by one caller without interruption.
Lookup(memory, disk, request, now) ==
    LET key == GenerateCacheKey(request)
    IN  IF ~ShouldCache(request)
           THEN [result |-> None, memory |-> memory, disk |-> disk]
        ELSE IF key \in DOMAIN memory /\ Fresh(memory[key], now)
           THEN [result |-> memory[key].data, memory |-> memory, disk |-> disk]
        ELSE DiskLookup(Without(memory, {key}), disk, key, now)

\* put: the two tiers after it.
Stored(memory, disk, request, data, now) ==
    LET key == GenerateCacheKey(request)
        cache_type == DetermineCacheType(request)
        ttl == GetTtlForType(cache_type)
    IN  IF ~ShouldCache(request)
           THEN [memory |-> memory, disk |-> disk]
           ELSE [memory |-> Promoted(memory, key, MemoryEntry(data, now, ttl)),
                 disk |-> With(disk, key,
                               [data |-> JsonDumps(data), created_at |-> now,
                                ttl |-> ttl, cache_type |-> cache_type])]

Returning(op, key, result, calls) ==
    [at |-> "returned", op |-> op, key |-> key, result |-> result, calls |-> calls]

Get(w, request) ==
    /\ reader[w].at = "idle"
    /\ LET found == Lookup(memory_cache, cache_entries, request, current_time)
       IN /\ memory_cache' = found.memory
          /\ cache_entries' = found.disk
          /\ reader' = [reader EXCEPT ![w] =
                           Returning("get", GenerateCacheKey(request), found.result, 0)]
    /\ UNCHANGED current_time

Put(w, request, data) ==
    /\ reader[w].at = "idle"
    /\ LET stored == Stored(memory_cache, cache_entries, request, data, current_time)
       IN /\ memory_cache' = stored.memory
          /\ cache_entries' = stored.disk
    /\ UNCHANGED <<current_time, reader>>

\* cache_key LIKE %pattern%: the key is a digest, and a pattern that is a whole
\* digest names one key; a word of an endpoint names none.
Patterns == CacheKeys \cup {<<"word", "search">>}
Matches(key, pattern) == key = pattern

\* invalidate(pattern); NoKey stands for no pattern.
Invalidate(w, pattern) ==
    /\ reader[w].at = "idle"
    /\ LET keys_to_delete ==
               IF pattern = NoKey
                  THEN DOMAIN cache_entries \cup DOMAIN memory_cache
                  ELSE {k \in DOMAIN cache_entries : Matches(k, pattern)}
       IN /\ cache_entries' = Without(cache_entries, keys_to_delete)
          /\ memory_cache' = Without(memory_cache, keys_to_delete)
    /\ UNCHANGED <<current_time, reader>>

CleanupExpired(w) ==
    /\ reader[w].at = "idle"
    /\ cache_entries' =
          Without(cache_entries,
                  {k \in DOMAIN cache_entries :
                      cache_entries[k].created_at + cache_entries[k].ttl < current_time})
    /\ memory_cache' =
          Without(memory_cache,
                  {k \in DOMAIN memory_cache : ~Fresh(memory_cache[k], current_time)})
    /\ UNCHANGED <<current_time, reader>>

\* cache_enabled_request: client_method answers with a payload, or raises
\* (answer is None).
CacheEnabledRequest(w, request, answer) ==
    /\ reader[w].at = "idle"
    /\ LET key == GenerateCacheKey(request)
           found == Lookup(memory_cache, cache_entries, request, current_time)
           stored == Stored(found.memory, found.disk, request, answer, current_time)
       IN IF found.result # None
             THEN /\ memory_cache' = found.memory
                  /\ cache_entries' = found.disk
                  /\ reader' = [reader EXCEPT ![w] =
                        Returning("cache_enabled_request", key, found.result, 0)]
          ELSE IF answer # None
             THEN /\ memory_cache' = stored.memory
                  /\ cache_entries' = stored.disk
                  /\ reader' = [reader EXCEPT ![w] =
                        Returning("cache_enabled_request", key, answer, 1)]
          ELSE /\ memory_cache' = found.memory
               /\ cache_entries' = found.disk
               /\ reader' = [reader EXCEPT ![w] =
                     [at |-> "raised", op |-> "cache_enabled_request", key |-> key,
                      result |-> None, calls |-> 1]]
    /\ UNCHANGED current_time

\* The caller takes what the operation came to.
Taken(w) ==
    /\ reader[w].at \in {"returned", "raised"}
    /\ reader' = [reader EXCEPT ![w] = IdleRead]
    /\ UNCHANGED <<memory_cache, cache_entries, current_time>>

AnHourPasses ==
    /\ current_time < MaxTime
    /\ current_time' = current_time + 1
    /\ UNCHANGED <<memory_cache, cache_entries, reader>>

restVars == <<tableVars, clientVars, paceVars, pageVars, batchVars>>

CacheNext ==
    \/ \E r \in Requests : Get(Traverser, r) /\ UNCHANGED restVars
    \/ \E r \in Requests : Put(Traverser, r, Answer(r)) /\ UNCHANGED restVars
    \/ \E pattern \in Patterns \cup {NoKey} :
          Invalidate(Traverser, pattern) /\ UNCHANGED restVars
    \/ CleanupExpired(Traverser) /\ UNCHANGED restVars
    \/ \E r \in Requests : \E answer \in {Answer(r), None} :
          CacheEnabledRequest(Traverser, r, answer) /\ UNCHANGED restVars
    \/ Taken(Traverser) /\ UNCHANGED restVars
    \/ AnHourPasses /\ UNCHANGED restVars

CacheSpec == ClientRaceInit /\ [][CacheNext]_vars
\* Several threads on one cache.  The memory part of get is three dict
\* operations, the membership test, the subscript and the del, and another
\* thread may run between any two of them; a subscript or a del of a key
\* that is gone raises KeyError, outside the try block of get.  The part of
\* get that reads cache.db is one step, and so are put, invalidate and
\* cleanup_expired, whose exceptions are caught and logged.
RaceRequests == {[endpoint |-> DetailsEndpoint(CO_DEPARTMENT_ID), query |-> 0],
                 [endpoint |-> "search/v1/records", query |-> 20]}

Reading(at, key) == [at |-> at, op |-> "get", key |-> key, result |-> None, calls |-> 0]

\* if cache_key in self.memory_cache
GetLookup(w, request) ==
    /\ reader[w].at = "idle"
    /\ LET key == GenerateCacheKey(request)
       IN reader' = [reader EXCEPT ![w] =
             IF ~ShouldCache(request) THEN Returning("get", key, None, 0)
             ELSE IF key \in DOMAIN memory_cache THEN Reading("found", key)
             ELSE Reading("disk", key)]
    /\ UNCHANGED <<memory_cache, cache_entries, current_time>>

\* entry = self.memory_cache[cache_key], and the test of its age
GetEntry(w) ==
    /\ reader[w].at = "found"
    /\ LET key == reader[w].key
       IN reader' = [reader EXCEPT ![w] =
             IF key \notin DOMAIN memory_cache THEN [@ EXCEPT !.at = "raised"]
             ELSE IF Fresh(memory_cache[key], current_time)
                THEN Returning("get", key, memory_cache[key].data, 0)
             ELSE [@ EXCEPT !.at = "expired"]]
    /\ UNCHANGED <<memory_cache, cache_entries, current_time>>

\* del self.memory_cache[cache_key]
GetDelete(w) ==
    /\ reader[w].at = "expired"
    /\ LET key == reader[w].key
       IN IF key \in DOMAIN memory_cache
             THEN /\ memory_cache' = Without(memory_cache, {key})
                  /\ reader' = [reader EXCEPT ![w].at = "disk"]
             ELSE /\ reader' = [reader EXCEPT ![w].at = "raised"]
                  /\ UNCHANGED memory_cache
    /\ UNCHANGED <<cache_entries, current_time>>

GetDisk(w) ==
    /\ reader[w].at = "disk"
    /\ LET key == reader[w].key
           found == DiskLookup(memory_cache, cache_entries, key, current_time)
       IN /\ memory_cache' = found.memory
          /\ cache_entries' = found.disk
          /\ reader' = [reader EXCEPT ![w] = Returning("get", key, found.result, 0)]
    /\ UNCHANGED current_time

CacheRaceNext ==
    \/ \E w \in Workers : \E r \in RaceRequests : GetLookup(w, r) /\ UNCHANGED restVars
    \/ \E w \in Workers : GetEntry(w) /\ UNCHANGED restVars
    \/ \E w \in Workers : GetDelete(w) /\ UNCHANGED restVars
    \/ \E w \in Workers : GetDisk(w) /\ UNCHANGED restVars
    \/ \E w \in Workers : \E r \in RaceRequests :
          Put(w, r, Answer(r)) /\ UNCHANGED restVars
    \/ \E w \in Workers : \E pattern \in {GenerateCacheKey(r) : r \in RaceRequests} \cup {NoKey} :
          Invalidate(w, pattern) /\ UNCHANGED restVars
    \/ \E w \in Workers : CleanupExpired(w) /\ UNCHANGED restVars
    \/ \E w \in Workers : Taken(w) /\ UNCHANGED restVars
    \/ AnHourPasses /\ UNCHANGED restVars

CacheRaceSpec == ClientRaceInit /\ [][CacheRaceNext]_vars
\* ------------------------------------------------ cursor-based pagination
\* The records table as paginate_records reads it: a row's id, its
\* created_at and one more column to order by.  Ids and column values are
\* numbers, in the order in which sqlite compares the texts they stand for.
MaxId == 3
MaxStamp == 2
PageSize == 2

Ids == 1..MaxId
Stamps == 1..MaxStamp
Titles == {1, 2}
OrderColumns == {"created_at", "title"}
OrderDirections == {"ASC", "DESC"}

\* PaginationCursor(timestamp, record_id, direction)
Cursor(timestamp, record_id, direction) ==
    [timestamp |-> timestamp, record_id |-> record_id, direction |-> direction]
Cursors == {Cursor(t, i, d) : t \in 0..MaxStamp, i \in Ids, d \in {"forward", "backward"}}

\* encode: the three fields as a JSON object, then base64.
Encode(c) ==
    [b64 |-> TRUE, json |-> TRUE,
     data |-> [timestamp |-> c.timestamp, record_id |-> c.record_id,
               direction |-> c.direction]]

Invalid == [ok |-> FALSE, cursor |-> NoCursor]

\* decode with a direction that is not read from the string.
DecodeAsForward(cursor_string) ==
    IF /\ cursor_string.b64 /\ cursor_string.json
       /\ DOMAIN cursor_string.data \subseteq {"timestamp", "record_id", "direction"}
       /\ {"timestamp", "record_id"} \subseteq DOMAIN cursor_string.data
       THEN [ok |-> TRUE,
             cursor |-> Cursor(cursor_string.data.timestamp,
                               cursor_string.data.record_id, "forward")]
       ELSE Invalid

\* decode: base64, json.loads, cls(**cursor_data); whatever goes wrong is
\* raised as ValueError.  The constructor wants timestamp and record_id,
\* takes "forward" for a direction left out, refuses any other name, and
\* looks at no value.
Decode(cursor_string) ==
    IF /\ cursor_string.b64 /\ cursor_string.json
       /\ DOMAIN cursor_string.data \subseteq {"timestamp", "record_id", "direction"}
       /\ {"timestamp", "record_id"} \subseteq DOMAIN cursor_string.data
       THEN [ok |-> TRUE,
             cursor |-> Cursor(cursor_string.data.timestamp,
                               cursor_string.data.record_id,
                               IF "direction" \in DOMAIN cursor_string.data
                                  THEN cursor_string.data.direction
                                  ELSE "forward")]
       ELSE Invalid

\* Strings that are no cursor: not base64, base64 of something that is not
\* a JSON object, an object without record_id, one with a member too many,
\* one without direction, one with a direction that is no direction.
Malformed ==
    {[b64 |-> FALSE, json |-> FALSE, data |-> [junk |-> 1]],
     [b64 |-> TRUE, json |-> FALSE, data |-> [junk |-> 1]],
     [b64 |-> TRUE, json |-> TRUE, data |-> [timestamp |-> 1]],
     [b64 |-> TRUE, json |-> TRUE,
      data |-> [timestamp |-> 1, record_id |-> 1, direction |-> "forward", extra |-> 1]],
     [b64 |-> TRUE, json |-> TRUE, data |-> [timestamp |-> 1, record_id |-> 1]],
     [b64 |-> TRUE, json |-> TRUE,
      data |-> [timestamp |-> 1, record_id |-> 1, direction |-> "sideways"]]}
CursorStrings == {Encode(c) : c \in Cursors} \cup Malformed

\* DatabaseManager._row_to_record: the Record made of a row.  Record has no
\* field created_at.
RowToRecord(row) == [id |-> row.id, title |-> row.title]

\* The WHERE clause that _build_cursor_query makes of a cursor.
CursorCondition(row, cursor, order_by, order_direction) ==
    LET below == \/ row[order_by] < cursor.timestamp
                 \/ row[order_by] = cursor.timestamp /\ row.id < cursor.record_id
        above == \/ row[order_by] > cursor.timestamp
                 \/ row[order_by] = cursor.timestamp /\ row.id > cursor.record_id
    IN  CASE cursor.direction = "forward" ->
                IF order_direction = "DESC" THEN below ELSE above
          [] cursor.direction = "backward" ->
                IF order_direction = "DESC" THEN above ELSE below
          [] OTHER -> TRUE

\* ORDER BY order_by direction, id direction
Precedes(a, b, order_by, direction) ==
    IF direction = "ASC"
       THEN a[order_by] < b[order_by] \/ (a[order_by] = b[order_by] /\ a.id < b.id)
       ELSE a[order_by] > b[order_by] \/ (a[order_by] = b[order_by] /\ a.id > b.id)

RECURSIVE Ordered(_, _, _)
Ordered(rows, order_by, direction) ==
    IF rows = {} THEN <<>>
    ELSE LET first == CHOOSE r \in rows :
                         \A o \in rows \ {r} : Precedes(r, o, order_by, direction)
         IN  <<first>> \o Ordered(rows \ {first}, order_by, direction)

\* LIMIT ?
Limit(seq, n) == SubSeq(seq, 1, Min(Len(seq), n))

\* The rows the query of _build_cursor_query selects; has_cursor is
\* "cursor_obj is not None".
Query(table, has_cursor, cursor, order_by, order_direction, page_size) ==
    LET selected == {r \in table :
                        has_cursor => CursorCondition(r, cursor, order_by, order_direction)}
        direction == IF has_cursor /\ cursor.direction = "backward"
                        THEN (IF order_direction = "DESC" THEN "ASC" ELSE "DESC")
                        ELSE order_direction
    IN  Limit(Ordered(selected, order_by, direction), page_size)

\* paginate_records.  A cursor that does not decode is logged and dropped.
\* The cursors of the result are built from created_at of the first and the
\* last Record of the page, and reading an attribute a Record does not have
\* raises AttributeError.
PaginateRecords(table, page_size, cursor_string, order_by, order_direction) ==
    LET decoded == Decode(cursor_string)
        has_cursor == cursor_string # NoString /\ decoded.ok
        rows == Query(table, has_cursor, decoded.cursor, order_by, order_direction,
                      page_size)
        found == [i \in 1..Len(rows) |-> RowToRecord(rows[i])]
        has_next == Len(found) = page_size
        has_prev == has_cursor
        asked == [NoPage EXCEPT !.cursor = cursor_string, !.order_by = order_by,
                                !.order_direction = order_direction]
    IN  IF found # <<>> /\ (has_next \/ has_prev)
           /\ "created_at" \notin DOMAIN found[1]
           THEN [asked EXCEPT !.error = "AttributeError"]
           ELSE [asked EXCEPT
                   !.records = [i \in 1..Len(found) |-> found[i].id],
                   !.has_next = has_next,
                   !.has_prev = has_prev,
                   !.next_cursor =
                       IF found # <<>> /\ has_next
                          THEN Encode(Cursor(found[Len(found)].created_at,
                                             found[Len(found)].id, "forward"))
                          ELSE NoString,
                   !.prev_cursor =
                       IF found # <<>> /\ has_prev
                          THEN Encode(Cursor(found[1].created_at, found[1].id,
                                             "backward"))
                          ELSE NoString]

\* store_record of a record not yet stored: created_at is CURRENT_TIMESTAMP.
StoreRecord(id, created_at, title) ==
    /\ \A r \in records : r.id # id /\ r.created_at <= created_at
    /\ records' = records \cup {[id |-> id, created_at |-> created_at, title |-> title]}
    /\ UNCHANGED <<cursors, page, scan>>

\* The caller has no call under way and holds no result of one.
NoCallHeld == cursors = NoDecode /\ page = NoPage /\ scan = NoScan

\* A caller encodes a cursor and decodes the string again.
RoundTrip(c) ==
    /\ NoCallHeld
    /\ cursors' = [op |-> "roundtrip", cursor |-> c, string |-> Encode(c),
                   decoded |-> Decode(Encode(c))]
    /\ page' = NoPage /\ scan' = NoScan
    /\ UNCHANGED records

\* A caller decodes a string it was given.
DecodeString(cursor_string) ==
    /\ NoCallHeld
    /\ cursors' = [op |-> "decode", cursor |-> NoCursor, string |-> cursor_string,
                   decoded |-> Decode(cursor_string)]
    /\ page' = NoPage /\ scan' = NoScan
    /\ UNCHANGED records

\* One paginate_records call with a cursor of the caller's.
Paginate(cursor_string, order_by, order_direction) ==
    /\ NoCallHeld
    /\ page' = PaginateRecords(records, PageSize, cursor_string, order_by,
                               order_direction)
    /\ cursors' = NoDecode /\ scan' = NoScan
    /\ UNCHANGED records

\* The loop of iterate_all_records, which orders by created_at DESC; a caller
\* of paginate_records that orders otherwise loops in the same way.
StartScan(order_by, order_direction) ==
    /\ NoCallHeld
    /\ scan' = [NoScan EXCEPT !.at = "running",
                              !.start = {r.id : r \in records},
                              !.order_by = order_by,
                              !.order_direction = order_direction]
    /\ page' = NoPage /\ cursors' = NoDecode
    /\ UNCHANGED records

ScanPage ==
    /\ scan.at = "running"
    /\ LET result == PaginateRecords(records, PageSize, scan.cursor, scan.order_by,
                                     scan.order_direction)
       IN /\ page' = result
          /\ scan' = IF result.error # NULL THEN [scan EXCEPT !.at = "raised"]
                     ELSE [scan EXCEPT
                             !.yielded = @ \o result.records,
                             !.at = IF result.has_next THEN "running" ELSE "done",
                             !.cursor = result.next_cursor]
    /\ UNCHANGED <<records, cursors>>

\* The caller has taken the result of its call, or the exception.
ResultTaken ==
    /\ ~NoCallHeld /\ scan.at # "running"
    /\ cursors' = NoDecode /\ page' = NoPage /\ scan' = NoScan
    /\ UNCHANGED records

otherVars == <<tableVars, clientVars, paceVars, cacheVars, batchVars>>

PageNext ==
    \/ \E id \in Ids, created_at \in Stamps, title \in Titles :
          StoreRecord(id, created_at, title) /\ UNCHANGED otherVars
    \/ \E c \in Cursors : RoundTrip(c) /\ UNCHANGED otherVars
    \/ \E s \in CursorStrings : DecodeString(s) /\ UNCHANGED otherVars
    \/ \E s \in CursorStrings \cup {NoString}, order_by \in OrderColumns,
          order_direction \in OrderDirections :
          Paginate(s, order_by, order_direction) /\ UNCHANGED otherVars
    \/ \E order_by \in OrderColumns, order_direction \in OrderDirections :
          StartScan(order_by, order_direction) /\ UNCHANGED otherVars
    \/ ScanPage /\ UNCHANGED otherVars
    \/ ResultTaken /\ UNCHANGED otherVars

PageSpec == ClientRaceInit /\ [][PageNext]_vars
\* ---------------------------------------------------- BatchRequestManager
\* One thread submits requests (add_record_request, add_search_request) and
\* fetches results; the thread of start_processing runs _process_batches.
BatchEndpoints == {"records/v1/details", "search/v1/records"}

\* The if/elif/else on priority that picks the queue.
QueueFor(priority) ==
    IF priority = 1 THEN 1 ELSE IF priority = 2 THEN 2 ELSE 3

\* What one API call made for a request comes to: a value, None (get_record
\* of a record the server does not have), or an exception.
CallOutcomes == {"ok", "none", "raise"}

BatchResult(success, error) == [success |-> success, error |-> error]

\* The manager's dicts, queues and requests, as one value s.
Manager ==
    [requests |-> batch_requests, queues |-> priority_queues,
     pending |-> pending_requests, completed |-> completed_results]

\* _complete_request
CompleteRequest(s, id, result) ==
    [s EXCEPT !.pending = @ \ {id},
              !.completed = With(@, id, result),
              !.requests[id].results = @ + 1]

\* The except branch of _process_single_request: new_priority is taken from
\* request.priority, which is never written.
Requeued(s, id) ==
    LET new_priority == Min(s.requests[id].priority + 1, 3)
    IN  [s EXCEPT !.requests[id].retries = @ + 1,
                  !.requests[id].level = QueueFor(new_priority),
                  !.queues[QueueFor(new_priority)] = Append(@, id)]

\* _process_single_request
ProcessSingleRequest(s, id, outcome) ==
    LET called == [s EXCEPT !.requests[id].executed = @ + 1]
        request == s.requests[id]
    IN  CASE outcome = "raise" ->
                IF request.retries < BatchMaxRetries
                   THEN Requeued(called, id)
                   ELSE CompleteRequest(called, id,
                                        BatchResult(FALSE, "Max retries exceeded"))
          [] outcome = "none" /\ request.endpoint = "records/v1/details" ->
                CompleteRequest(called, id, BatchResult(FALSE, "Record not found"))
          [] OTHER -> CompleteRequest(called, id, BatchResult(TRUE, NULL))

\* for request in ...: self._process_single_request(request)
RECURSIVE ProcessEach(_, _, _)
ProcessEach(s, ids, outcomes) ==
    IF ids = <<>> THEN s
    ELSE ProcessEach(ProcessSingleRequest(s, Head(ids), outcomes[Head(ids)]),
                     Tail(ids), outcomes)

\* The loop of _batch_process_records over the result of the batch search.
RECURSIVE CompleteFromSearch(_, _, _)
CompleteFromSearch(s, ids, result_map) ==
    IF ids = <<>> THEN s
    ELSE CompleteFromSearch(
            CompleteRequest(s, Head(ids),
                            IF Head(ids) \in result_map
                               THEN BatchResult(TRUE, NULL)
                               ELSE BatchResult(FALSE, "Record not found in batch search")),
            Tail(ids), result_map)

RECURSIVE Searched(_, _)
Searched(s, ids) ==
    IF ids = <<>> THEN s
    ELSE Searched([s EXCEPT !.requests[Head(ids)].searched = @ + 1], Tail(ids))

\* _batch_process_records: one search for all the records asked for; when
\* it raises, each request is processed on its own.
BatchProcessRecords(s, record_requests, search_ok, result_map, outcomes) ==
    IF record_requests = <<>> THEN s
    ELSE IF search_ok
       THEN CompleteFromSearch(Searched(s, record_requests), record_requests, result_map)
       ELSE ProcessEach(Searched(s, record_requests), record_requests, outcomes)

\* _execute_batch: the record requests first, then the search requests.
ExecuteBatch(s, batch, search_ok, result_map, outcomes) ==
    LET IsRecord(id) == s.requests[id].endpoint = "records/v1/details"
        IsSearch(id) == s.requests[id].endpoint = "search/v1/records"
    IN  ProcessEach(BatchProcessRecords(s, SelectSeq(batch, IsRecord), search_ok,
                                        result_map, outcomes),
                    SelectSeq(batch, IsSearch), outcomes)

\* add_record_request and add_search_request up to the put into the queue:
\* the request is in its queue and not yet in pending_requests.  Ids are
\* given out in order.
AddRequest(id, endpoint, priority) ==
    /\ batch_requests[id].added = "no"
    /\ \A other \in RequestIds : other < id => batch_requests[other].added # "no"
    /\ batch_requests' =
          [batch_requests EXCEPT ![id] =
              [NoBatchRequest EXCEPT !.added = "queued", !.endpoint = endpoint,
                                     !.priority = priority,
                                     !.level = QueueFor(priority)]]
    /\ priority_queues' = [priority_queues EXCEPT ![QueueFor(priority)] = Append(@, id)]
    /\ UNCHANGED <<pending_requests, completed_results, processing>>

\* self.pending_requests[request_id] = batch_request, and the return.
RegisterPending(id) ==
    /\ batch_requests[id].added = "queued"
    /\ pending_requests' = pending_requests \cup {id}
    /\ batch_requests' = [batch_requests EXCEPT ![id].added = "returned"]
    /\ UNCHANGED <<priority_queues, completed_results, processing>>

\* _get_next_batch: up to batch_size requests, high before medium before low.
GetNextBatch ==
    /\ processing.at = "idle"
    /\ LET waiting == priority_queues[1] \o priority_queues[2] \o priority_queues[3]
           batch == SubSeq(waiting, 1, Min(Len(waiting), BatchSize))
           taken == {batch[i] : i \in 1..Len(batch)}
           Left(id) == id \notin taken
       IN /\ batch # <<>>
          /\ processing' = [at |-> "batch", batch |-> batch]
          /\ priority_queues' =
                [level \in PriorityLevels |-> SelectSeq(priority_queues[level], Left)]
    /\ UNCHANGED <<batch_requests, pending_requests, completed_results>>

\* self._execute_batch(batch)
ExecuteBatchStep(search_ok, result_map, outcomes) ==
    /\ processing.at = "batch"
    /\ LET s == ExecuteBatch(Manager, processing.batch, search_ok, result_map, outcomes)
       IN /\ batch_requests' = s.requests
          /\ priority_queues' = s.queues
          /\ pending_requests' = s.pending
          /\ completed_results' = s.completed
    /\ processing' = IdleProcessing

\* get_result and wait_for_results: the result is popped.
GetResult(id) ==
    /\ id \in DOMAIN completed_results
    /\ batch_requests[id].added = "returned"
    /\ completed_results' = Without(completed_results, {id})
    /\ UNCHANGED <<batch_requests, priority_queues, pending_requests, processing>>

ProcessingStep ==
    \/ GetNextBatch
    \/ \E search_ok \in BOOLEAN, result_map \in SUBSET RequestIds,
          outcomes \in [RequestIds -> CallOutcomes] :
          ExecuteBatchStep(search_ok, result_map, outcomes)

nonBatchVars == <<tableVars, clientVars, paceVars, cacheVars, pageVars>>

BatchNext ==
    \/ \E id \in RequestIds, endpoint \in BatchEndpoints, priority \in PriorityLevels :
          AddRequest(id, endpoint, priority) /\ UNCHANGED nonBatchVars
    \/ \E id \in RequestIds : RegisterPending(id) /\ UNCHANGED nonBatchVars
    \/ \E id \in RequestIds : GetResult(id) /\ UNCHANGED nonBatchVars
    \/ ProcessingStep /\ UNCHANGED nonBatchVars

BatchSpec == ClientRaceInit /\ [][BatchNext]_vars
\* The processing thread keeps running while is_processing is set.
FairBatchSpec == BatchSpec /\ WF_vars(ProcessingStep /\ UNCHANGED nonBatchVars)
\* ------------------------------------------------- a bare client of the table
\* Any caller of DatabaseManager, making the calls in any order.
MaxFailures == 3
DbKeys == {"C57", "C243"}
DbSeeds == {[parent_id |-> NULL, expected_level |-> "Department"],
            [parent_id |-> CO_DEPARTMENT_ID, expected_level |-> "Series"]}
DbUpdates == {[status |-> "PROCESSING", error_message |-> NULL],
              [status |-> "COMPLETED", error_message |-> NULL],
              [status |-> "FAILED", error_message |-> "Unexpected error"]}

Enqueue(url, seed) ==
    /\ queue' = AddToCrawlQueue(queue, url, seed.parent_id, seed.expected_level, clock)
    /\ last' = [op |-> "add_to_crawl_queue", url |-> url,
                ok |-> AddedToCrawlQueue(queue, url)]
    /\ UNCHANGED <<clock, catalogue, transportOK, scraping, clientVars, libVars, runs, pc, cap, cur, pending,
                   processed_urls>>

ClaimNext ==
    /\ IF NextCrawlItems(queue) = {}
          THEN last' = [op |-> "get_next_crawl_item", url |-> NULL, ok |-> FALSE]
          ELSE \E r \in NextCrawlItems(queue) :
                  last' = [op |-> "get_next_crawl_item", url |-> r.url, ok |-> TRUE]
    /\ UNCHANGED <<queue, clock, catalogue, transportOK, scraping, clientVars, libVars, runs, pc, cap, cur,
                   pending, processed_urls>>

UpdateStatus(url, update) ==
    /\ update.status = "FAILED" => \A r \in queue : r.retries < MaxFailures
    /\ queue' = UpdateCrawlStatus(queue, url, update.status, update.error_message)
    /\ last' = [op |-> "update_crawl_status", url |-> url, ok |-> HasUrl(queue, url)]
    /\ UNCHANGED <<clock, catalogue, transportOK, scraping, clientVars, libVars, runs, pc, cap, cur, pending,
                   processed_urls>>

ResetFailed ==
    /\ queue' = ResetFailedRows(queue, MaxRetries)
    /\ last' = [op |-> "reset_failed_items", url |-> NULL, ok |-> queue' # queue]
    /\ UNCHANGED <<clock, catalogue, transportOK, scraping, clientVars, libVars, runs, pc, cap, cur, pending,
                   processed_urls>>

DbNext ==
    \/ \E url \in DbKeys, seed \in DbSeeds : Enqueue(url, seed)
    \/ ClaimNext
    \/ \E url \in DbKeys, update \in DbUpdates : UpdateStatus(url, update)
    \/ ResetFailed
    \/ ResumeTraversal(Traverser)
    \/ Tick

DbInit == InitWith({TreeCatalogue}, {TRUE}, {TRUE})

DbSpec == DbInit /\ [][DbNext]_vars

\* C1: the table holds exactly one row for every url ever enqueued: adding a
\* url that is already stored reports no insertion and leaves the table, and
\* so the stored row's status, retries, parent_id, expected_level and
\* discovered_at, as it was; adding a new url stores it; no call removes a row.
C1_OneRowPerKey ==
    [][ /\ \A r \in queue : \E s \in queue' : s.url = r.url
        /\ \A r, s \in queue' : r.url = s.url => r = s
        /\ \A url \in DbKeys, seed \in DbSeeds :
              Enqueue(url, seed) =>
                 /\ HasUrl(queue', url)
                 /\ HasUrl(queue, url) => queue' = queue /\ ~last'.ok
                 /\ ~HasUrl(queue, url) => last'.ok ]_vars

\* A url is added again after its row has failed and been counted.
C1_Witness ==
    /\ last.op = "add_to_crawl_queue"
    /\ ~last.ok
    /\ \E r \in queue : r.url = last.url /\ r.status = "FAILED" /\ r.retries > 0

\* C5: a row's retries never go down and go up by exactly one each time the
\* row is written FAILED, and a row whose retries have reached max_retries is
\* not QUEUED: neither a FAILED write, nor the reset of failed rows, nor
\* resume puts it back.
C5_RetriesBound ==
    [][ /\ \A r \in queue : \A s \in queue' : s.url = r.url =>
              /\ s.retries >= r.retries
              /\ (\E update \in DbUpdates :
                      update.status = "FAILED" /\ UpdateStatus(r.url, update))
                    => s.retries = r.retries + 1
        /\ \A s \in queue' : s.retries >= MaxRetries => s.status # "QUEUED" ]_vars

\* A row has been written FAILED max_retries times, and the reset of failed
\* rows that was called after that has left it FAILED.
C5_Witness ==
    /\ last.op = "reset_failed_items"
    /\ \E r \in queue : r.retries = MaxRetries /\ r.status = "FAILED"

\* ------------------------------------------------ concurrent traversers
\* Several traversers, each in its own process, share the database file.
RaceInit == InitWith({PairCatalogue, TreeCatalogue}, BOOLEAN, {TRUE})

RaceNext ==
    \/ \E w \in Workers : StartCoTraversal(w, 0)
    \/ \E w \in Workers : ResumeTraversal(w)
    \/ \E w \in Workers : WorkerStep(w)
    \/ \E w \in Workers : Interrupt(w)
    \/ ResetFailedItems

RaceSpec == RaceInit /\ [][RaceNext]_vars

\* ------------------------------------------------------------------ claims
\* C2: no row is in the hands of two traversers at once.
C2_NoDoubleClaim ==
    \A v, w \in Workers :
        v # w /\ cur[v] # NoItem => cur[v].url # cur[w].url

AllowedChange(from, to) ==
    \/ from = to
    \/ <<from, to>> \in {<<"QUEUED", "PROCESSING">>, <<"PROCESSING", "COMPLETED">>,
                         <<"PROCESSING", "FAILED">>, <<"FAILED", "QUEUED">>,
                         <<"PROCESSING", "QUEUED">>}

\* C3: every change of a row's status is QUEUED to PROCESSING, PROCESSING to
\* COMPLETED, PROCESSING to FAILED, FAILED to QUEUED or PROCESSING to QUEUED.
C3_StatusChanges ==
    [][\A r \in queue : \A s \in queue' :
          s.url = r.url => AllowedChange(r.status, s.status)]_vars

\* C4: a row written FAILED whose retries are below max_retries is QUEUED
\* again, so that only a row that has used up its retries is found FAILED.
C4_FailedBelowBoundIsRequeued ==
    \A r \in queue : r.status = "FAILED" => r.retries >= MaxRetries

\* C6: resume puts every PROCESSING row back to QUEUED and changes nothing
\* else of the table.
C6_ResumeRequeuesOrphans ==
    [][ResumeTraversal(Traverser) =>
          queue' = {IF r.status = "PROCESSING" THEN [r EXCEPT !.status = "QUEUED"]
                                               ELSE r : r \in queue}]_vars

\* C7: once a run holds its first row, no row left PROCESSING by an earlier
\* run is still PROCESSING: the only PROCESSING row is the one in hand.
C7_OrphansRecoveredBeforeClaim ==
    cur[Traverser] # NoItem =>
        \A r \in queue : r.status = "PROCESSING" => r.url = cur[Traverser].url

\* C8: when a run ends, by either break or by being cut short, the row it
\* had in hand is not PROCESSING.
C8_NothingLeftProcessing ==
    [][pc[Traverser] \in Running /\ pc'[Traverser] \in Stopped =>
          \A r \in queue' : r.url = cur[Traverser].url => r.status # "PROCESSING"]_vars

Children(k) == {catalogue[k][i] : i \in 1..Len(catalogue[k])} \ {k}

RECURSIVE Closure(_)
Closure(S) ==
    LET T == S \cup UNION {Children(k) : k \in S}
    IN IF T = S THEN S ELSE Closure(T)

\* C10: a single run from one seed over a catalogue that always answers, once
\* it has returned for want of QUEUED rows, leaves exactly one row for the
\* seed and for each of its descendants, all of them COMPLETED.
C10_AllCompleted ==
    (runs = 1 /\ transportOK /\ pc[Traverser] = "exhausted") =>
        /\ \A r \in queue : r.status = "COMPLETED"
        /\ \E root \in Keys : {r.url : r \in queue} = Closure({root})
        /\ Cardinality(queue) = Cardinality({r.url : r \in queue})

\* ----------------------------------------------------- claims on the client
\* The largest attempt number the backoff formula is evaluated for.
MaxAttempt == 7

RowIn(q, url) == CHOOSE r \in q : r.url = url
Row(url) == RowIn(queue, url)

AllCaught(c, class) == \A i \in 1..Len(c.trace) : c.trace[i] = class

\* C11: a call whose attempts all reached the transport and were answered by
\* k server or network errors and then a success returns after k + 1
\* session.get calls with k sleeps of 5 s, k being at most max_retries; if the
\* error is still there after max_retries retries the call raises
\* TransientError after max_retries + 1 session.get calls.  The item whose
\* fetch returned goes on to child discovery and leaves it COMPLETED.
C11_TransientRetried ==
    /\ [](LET c == call[Traverser]
          IN (c.at = "done" /\ AllCaught(c, "TransientError")
                /\ c.result.class \in {"OK", "TransientError"}) =>
                 /\ Len(c.trace) <= MakeRequestMaxRetries
                 /\ c.sent = Len(c.trace) + 1
                 /\ c.slept = [i \in 1..Len(c.trace) |-> 50]
                 /\ c.result.class = "TransientError" =>
                        c.sent = MakeRequestMaxRetries + 1)
    /\ [][LET c == call[Traverser]
          IN /\ (c.at = "done" /\ c.endpoint = "details" /\ c.result.class = "OK"
                   /\ call' # call) =>
                    /\ pc[Traverser] = "processing"
                    /\ \/ pc'[Traverser] = "discover"
                       \/ pc'[Traverser] = "processing"
                            /\ call'[Traverser] = NewCall("search")
                    /\ Row(cur[Traverser].url).status = "PROCESSING"
                    /\ queue' = queue
             /\ (pc[Traverser] = "discover" /\ pc'[Traverser] # "discover") =>
                    \E r \in queue' : /\ r.url = cur[Traverser].url
                                      /\ r.status = "COMPLETED"]_vars

\* Two 503 answers and then a 200: three session.get calls, two sleeps.
C11_Witness ==
    LET c == call[Traverser]
    IN /\ c.at = "done" /\ c.result.class = "OK"
       /\ c.trace = <<"TransientError", "TransientError">>
       /\ c.sent = 3
       /\ pc[Traverser] = "processing"

Increasing(seq) ==
    \A i \in 1..(Len(seq) - 1) : seq[i] < seq[i + 1] \/ seq[i + 1] = 600

\* C12: a call whose every attempt raised RateLimitError makes
\* max_retries + 1 attempts, sleeps before each retry for 2^attempt seconds
\* plus a jitter of 0.1 to 0.5 s, never more than 60 s and each time longer
\* until 60 s is reached, and raises RateLimitError.
C12_RateLimitBackoff ==
    /\ LET c == call[Traverser]
       IN (c.at = "done" /\ AllCaught(c, "RateLimitError")
             /\ c.result.class = "RateLimitError") =>
              /\ c.attempt = MakeRequestMaxRetries
              /\ Len(c.slept) = MakeRequestMaxRetries
              /\ \A i \in 1..Len(c.slept) :
                    /\ c.slept[i] >= 10 * 2^(i - 1) + 1
                    /\ c.slept[i] <= 10 * 2^(i - 1) + 5
                    /\ c.slept[i] <= 600
              /\ Increasing(c.slept)
    /\ \A attempt \in 0..MaxAttempt, j1 \in Jitters, j2 \in Jitters :
          /\ BackoffDelay(attempt, j1) <= 600
          /\ \/ BackoffDelay(attempt, j1) < BackoffDelay(attempt + 1, j2)
             \/ BackoffDelay(attempt + 1, j2) = 600

\* Four 429 answers in a row.
C12_Witness ==
    LET c == call[Traverser]
    IN /\ c.at = "done" /\ c.result.class = "RateLimitError"
       /\ c.trace = <<"RateLimitError", "RateLimitError", "RateLimitError">>
       /\ c.sent = 4
       /\ c.outcome.status = 429

\* The class the error taxonomy gives an outcome that is not retried.
Category(o) ==
    CASE o.kind # "response" -> "NetworkError"
      [] o.status \in {401, 403} -> "AuthFailure"
      [] o.status = 404 -> "NotFound"
      [] o.status >= 400 /\ o.status < 500 /\ o.status # 429 -> "ClientError"
      [] o.status = 200 /\ o.body # "json" -> "ParseError"
      [] OTHER -> "other"

NotRetried == {"AuthFailure", "NotFound", "ClientError", "ParseError"}

\* C13: an authentication failure, a 404, another client error or an
\* unparseable body answering the first attempt is raised after that one
\* session.get, without a sleep, in an exception class that no outcome of
\* another of the four kinds is raised in; get_record reports "absent" for
\* NotFound only.
C13_NoRetryClassKept ==
    LET c == call[Traverser]
    IN (c.at = "done" /\ c.trace = <<>> /\ Category(c.outcome) \in NotRetried) =>
          /\ c.sent = 1
          /\ c.slept = <<>>
          /\ c.result.class = Classify(c.outcome)
          /\ \A o \in TransportOutcomes :
                (Category(o) \in NotRetried /\ Category(o) # Category(c.outcome))
                   => Classify(o) # c.result.class
          /\ GetRecord(c.result) = "none" => Category(c.outcome) = "NotFound"

Classes == {"RateLimitError", "AuthenticationError", "TransientError",
            "PermanentError", "ParsingError"}

\* The exception class that stands for the taxonomy class of an outcome:
\* PermanentError for NotFound and ClientError, TransientError for ServerError
\* and NetworkError.
ExpectedClass(o) ==
    CASE o.kind # "response" -> "TransientError"
      [] o.status = 429 -> "RateLimitError"
      [] o.status \in {401, 403} -> "AuthenticationError"
      [] o.status >= 400 /\ o.status < 500 -> "PermanentError"
      [] o.status >= 500 /\ o.status < 600 -> "TransientError"
      [] o.status = 204 -> "PermanentError"
      [] o.body = "json" -> "OK"
      [] OTHER -> "ParsingError"

C15_WindowCeiling ==
    [][LET c == call[Traverser]
       IN (c.at = "admit" /\ call'[Traverser] # c) =>
             /\ (~window_over /\ sent_in_5min >= MaxRequestsPer5Min) =>
                    /\ call'[Traverser].at # "inflight"
                    /\ call'[Traverser].sent = c.sent
             /\ (window_over /\ (day_over \/ daily_request_count < DailyLimit)) =>
                    /\ call'[Traverser].at = "inflight"
                    /\ requests_in_5min' = 0]_vars

\* C16: with several callers on one client the counts never pass their
\* ceilings.
C16_CeilingsUnderConcurrency ==
    /\ requests_in_5min <= MaxRequestsPer5Min
    /\ daily_request_count <= DailyLimit

\* C17: whenever no session.get is under way, requests_in_5min and
\* daily_request_count are the numbers of session.get calls made since
\* last_5min_window and daily_reset_time were set.
C17_CountsMatchDispatches ==
    call[Traverser].at # "inflight" =>
        /\ requests_in_5min = sent_in_5min
        /\ daily_request_count = sent_in_day

\* ------------------------------------------- claims on failures of an item
\* C18: a row written FAILED because its record was not found is never
\* QUEUED again.
C18_NotFoundIsTerminal ==
    [][\A r \in queue :
          (r.status = "FAILED" /\ r.error_message = ErrorMessage("notfound")) =>
              \A s \in queue' : s.url = r.url => s.status # "QUEUED"]_vars

\* What child discovery returns for the row in hand when nothing goes wrong.
Listing(w) ==
    IF scraping THEN HybridDiscoveredChildren(catalogue[cur[w].url], TRUE)
    ELSE ApiDiscoveredChildren(cur[w].expected_level, catalogue[cur[w].url], TRUE)

\* C19 as stated: an item whose fetch, store or child discovery goes wrong is
\* written FAILED and the loop goes on; in particular a discovery that went
\* wrong does not lead on to COMPLETED.
C19_ErrorsFailItem ==
    [][(pc[Traverser] = "processing" /\ pc'[Traverser] \notin {"processing", "cancelled"}) =>
          \/ /\ pc'[Traverser] = "loop"
             /\ RowIn(queue', cur[Traverser].url).status = "FAILED"
          \/ /\ pc'[Traverser] = "discover"
             /\ pending'[Traverser] = Listing(Traverser)]_vars

\* C19, amended: an item whose fetch or store goes wrong is written FAILED
\* with one more retry and the loop goes on; a child discovery that goes
\* wrong is taken as finding no children and the item goes on to COMPLETED;
\* no error of an item ends the run.
C19_ItemErrorsDoNotEndRun ==
    [][(pc[Traverser] \in {"processing", "discover"}
          /\ pc'[Traverser] \notin {pc[Traverser], "cancelled"}) =>
          \/ /\ pc[Traverser] = "processing" /\ pc'[Traverser] = "loop"
             /\ RowIn(queue', cur[Traverser].url).status = "FAILED"
             /\ RowIn(queue', cur[Traverser].url).retries = Row(cur[Traverser].url).retries + 1
          \/ /\ pc[Traverser] = "processing" /\ pc'[Traverser] = "discover"
             /\ pending'[Traverser] \in {Listing(Traverser), <<>>}
             /\ queue' = queue
          \/ /\ pc[Traverser] = "discover" /\ pc'[Traverser] = "loop"
             /\ RowIn(queue', cur[Traverser].url).status = "COMPLETED"]_vars

\* One item has failed and the loop holds the next one.
C19_Witness ==
    /\ pc[Traverser] \in {"claimed", "processing"}
    /\ \E r \in queue : /\ r.status = "FAILED" /\ r.retries = 1
                        /\ r.url # cur[Traverser].url
    /\ runs = 1

\* C20: a worker's COMPLETED or FAILED for a row that is not PROCESSING any
\* more leaves the table as it is.
C20_CommitNeedsProcessing ==
    [][\A w \in Workers :
          (pc[w] \in {"processing", "discover"} /\ pc'[w] = "loop"
             /\ Row(cur[w].url).status # "PROCESSING") => queue' = queue]_vars

Occurrences(seq, x) == Cardinality({i \in 1..Len(seq) : seq[i] = x})

\* C23: a loop that asks for page after page, each with the next_cursor of
\* the page before, until a page says has_next is false, has yielded each row
\* that was in the table when it began exactly once, for both order
\* directions and both order columns, with rows that tie on the order column
\* and with rows stored between two pages.
C23_ScanYieldsEachRowOnce ==
    scan.at \in {"done", "raised"} =>
        \A id \in scan.start : Occurrences(scan.yielded, id) = 1

\* C24: when the table has more rows than a page, the first page P names a
\* next page, that page names a previous page, and the previous page holds
\* the rows of P, none twice and none missing.
C24_BackToPreviousPage ==
    \A order_by \in OrderColumns, order_direction \in OrderDirections :
        LET P == PaginateRecords(records, PageSize, NoString, order_by, order_direction)
            N == PaginateRecords(records, PageSize, P.next_cursor, order_by,
                                 order_direction)
            B == PaginateRecords(records, PageSize, N.prev_cursor, order_by,
                                 order_direction)
        IN  Cardinality(records) > PageSize =>
               /\ P.error = NULL /\ P.next_cursor # NoString
               /\ N.error = NULL /\ N.prev_cursor # NoString
               /\ B.error = NULL
               /\ Len(B.records) = Len(P.records)
               /\ {B.records[i] : i \in 1..Len(B.records)}
                     = {P.records[i] : i \in 1..Len(P.records)}

C26_MalformedRejected ==
    /\ (cursors.op = "decode" /\ cursors.string \in Malformed) => ~cursors.decoded.ok
    /\ page.cursor \in Malformed => page.error = "InvalidCursor"

\* C27: a request that the client's own ledger refuses (the 5-minute window
\* is full, or the daily quota is spent) is not given up as RateLimitError:
\* the client waits for the nearer boundary and dispatches then, so a call
\* that ends in RateLimitError has been answered 429 by the server.
C27_LocalDenialWaits ==
    \A w \in Workers :
        (call[w].at = "done" /\ call[w].result.class = "RateLimitError")
            => call[w].outcome # NoOutcome

\* C29: while daily_request_count stands at the daily limit and the day has
\* not ended, no request is let through; a request let through after the
\* day's end finds the counter cleared and the day begun anew; a counter
\* falls only to 0 and only when its boundary has passed, and none is
\* negative.
C29_DailyCeiling ==
    [][/\ (daily_request_count >= DailyLimit /\ ~day_over) =>
             \A w \in Workers : call'[w].at = "inflight" => call[w].at = "inflight"
       /\ (day_over /\ \E w \in Workers : call[w].at = "admit" /\ call'[w].at = "inflight")
             => (daily_request_count' = 0 /\ ~day_over')
       /\ daily_request_count' < daily_request_count
             => (day_over /\ ~day_over' /\ daily_request_count' = 0)
       /\ requests_in_5min' < requests_in_5min
             => (window_over /\ ~window_over' /\ requests_in_5min' = 0)
       /\ daily_request_count' >= 0 /\ requests_in_5min' >= 0]_vars

\* The daily limit is reached within the day, the 5-minute window has room,
\* and a call has just been refused for the last time.
C29_Witness ==
    /\ daily_request_count = DailyLimit /\ ~day_over
    /\ requests_in_5min < MaxRequestsPer5Min /\ ~window_over
    /\ call[Traverser].at = "done"
    /\ call[Traverser].result.class = "RateLimitError"
    /\ call[Traverser].outcome = NoOutcome

\* C28: every session.get issued through the client comes at least one
\* period after the one before it, whether it is a first attempt, a retry,
\* or the first attempt of the next call.
C28_DispatchesSpaced ==
    [][\A w \in Workers :
          (call[w].at = "admit" /\ call'[w].at = "inflight")
              => since_dispatch >= Period]_vars

\* The entry stored under a key: the row of cache_entries, which every put
\* writes, or the copy in memory_cache when there is no row.
Held(key) ==
    IF key \in DOMAIN cache_entries
       THEN MemoryEntry(JsonLoads(cache_entries[key].data),
                        cache_entries[key].created_at, cache_entries[key].ttl)
       ELSE memory_cache[key]

GetReturns(w) ==
    /\ reader[w].at = "idle"
    /\ reader'[w].at = "returned" /\ reader'[w].op = "get"

\* C21: a get of a key whose entry has reached created_at + ttl returns None
\* and leaves the key in neither tier, in whichever tier it was; a get of a
\* key whose entry has not reached it returns the payload stored; this for
\* the keys of all four cache types.
C21_ExpiryOnRead ==
    [][\A w \in Workers :
          LET key == reader'[w].key
          IN (GetReturns(w) /\ key \in DOMAIN cache_entries \cup DOMAIN memory_cache) =>
                IF Fresh(Held(key), current_time)
                   THEN reader'[w].result = Held(key).data
                   ELSE /\ reader'[w].result = None
                        /\ key \notin DOMAIN memory_cache'
                        /\ key \notin DOMAIN cache_entries']_vars

\* C30: the traverser's fetch of a record goes through the cache: a fetch
\* that the client answered leaves the answer stored under the key of the
\* request, a fresh entry is returned without a session.get and without a
\* step of the counters, and a failed fetch stores nothing.
C30_FetchThroughCache ==
    [][(/\ pc[Traverser] = "processing"
        /\ call[Traverser].endpoint = "details"
        /\ call[Traverser].at = "inflight" /\ call'[Traverser].at = "done"
        /\ call'[Traverser].result.class = "OK") =>
          GenerateCacheKey([endpoint |-> DetailsEndpoint(cur[Traverser].url),
                            query |-> 0]) \in DOMAIN cache_entries']_vars

\* C22: with several threads calling get, put, invalidate and
\* cleanup_expired on one cache, no call raises, and a get returns None or a
\* payload that was stored under the key it asked for; two threads reading
\* the same expired key both get None.
C22_ConcurrentCallsSafe ==
    \A w \in Workers :
        /\ reader[w].at # "raised"
        /\ (reader[w].at = "returned" /\ reader[w].result # None)
              => GenerateCacheKey(reader[w].result.request) = reader[w].key


\* memory_cache holds memory_cache_max_size entries.
MemoryFull(memory) == Cardinality(DOMAIN memory) = MemoryCacheMaxSize

\* The step is put(request, Answer(request)) of a request worth caching,
\* writing a row that was not there: no other operation that leaves reader
\* alone adds or rewrites a row.
PutStep(request) ==
    /\ ShouldCache(request)
    /\ reader' = reader /\ current_time' = current_time
    /\ cache_entries' # cache_entries
    /\ cache_entries' = Stored(memory_cache, cache_entries, request,
                               Answer(request), current_time).disk

\* C31: memory_cache never holds more than memory_cache_max_size entries;
\* a put into a full memory_cache and a get that finds a fresh row while
\* memory_cache is full leave memory_cache as it was, and the entry is in
\* cache_entries and is what a get of its key returns.
C31_MemoryBounded ==
    [][/\ Cardinality(DOMAIN memory_cache') <= MemoryCacheMaxSize
       /\ \A r \in Requests :
             (MemoryFull(memory_cache) /\ PutStep(r)) =>
                /\ memory_cache' = memory_cache
                /\ JsonLoads(cache_entries'[GenerateCacheKey(r)].data) = Answer(r)
                /\ Lookup(memory_cache', cache_entries', r, current_time).result
                      = Answer(r)
       /\ \A w \in Workers :
             LET key == reader'[w].key
             IN (/\ GetReturns(w) /\ MemoryFull(memory_cache)
                 /\ key \notin DOMAIN memory_cache
                 /\ key \in DOMAIN cache_entries
                 /\ Fresh(cache_entries[key], current_time)) =>
                   /\ memory_cache' = memory_cache
                   /\ cache_entries' = cache_entries
                   /\ reader'[w].result = JsonLoads(cache_entries[key].data)]_vars


CacheTypes == {"static", "record", "dynamic", "complex_search"}
RequestOf(key) == [endpoint |-> key[2], query |-> key[3]]
TypeOf(entries, type) == {k \in DOMAIN entries : entries[k].cache_type = type}

\* C32: the ttl of an entry is set by the cache type of its request: every
\* request has one of the four types, an entry of type static outlives one
\* of type record, that one outlives one of type dynamic, and an entry of
\* type complex_search has twice the ttl of a dynamic one; the copy in
\* memory_cache has the ttl of its type too.
C32_TtlByCategory ==
    /\ \A r \in Requests : DetermineCacheType(r) \in CacheTypes
    /\ \A k \in DOMAIN cache_entries :
          /\ cache_entries[k].cache_type = DetermineCacheType(RequestOf(k))
          /\ cache_entries[k].cache_type \in CacheTypes
          /\ cache_entries[k].cache_type = "static" => cache_entries[k].ttl = StaticCacheTtl
          /\ cache_entries[k].cache_type = "record" => cache_entries[k].ttl = RecordCacheTtl
          /\ cache_entries[k].cache_type = "dynamic" => cache_entries[k].ttl = DynamicCacheTtl
    /\ \A s \in TypeOf(cache_entries, "static"), r \in TypeOf(cache_entries, "record") :
          cache_entries[s].ttl > cache_entries[r].ttl
    /\ \A r \in TypeOf(cache_entries, "record"), d \in TypeOf(cache_entries, "dynamic") :
          cache_entries[r].ttl > cache_entries[d].ttl
    /\ \A c \in TypeOf(cache_entries, "complex_search") :
          /\ cache_entries[c].ttl = 2 * DynamicCacheTtl
          /\ \A d \in TypeOf(cache_entries, "dynamic") :
                cache_entries[c].ttl = 2 * cache_entries[d].ttl
    /\ \A k \in DOMAIN memory_cache :
          memory_cache[k].ttl =
             LET type == DetermineCacheType(RequestOf(k))
             IN  CASE type = "static" -> StaticCacheTtl
                   [] type = "record" -> RecordCacheTtl
                   [] type = "dynamic" -> DynamicCacheTtl
                   [] OTHER -> 2 * DynamicCacheTtl

\* Entries of all four types are stored at once.
C32_Witness ==
    \A type \in CacheTypes : TypeOf(cache_entries, type) # {}


RecordRow(id) == CHOOSE r \in records : r.id = id
BackwardStrings == {Encode(c) : c \in {b \in Cursors : b.direction = "backward"}}

\* C33: a page asked for with a backward cursor comes back in the order the
\* caller asked for, and its cursors are made of its last and its first
\* record in that order: next_cursor, when there is a next page, of the
\* last, prev_cursor of the first.
C33_BackwardPageInOrder ==
    (page # NoPage /\ page.cursor \in BackwardStrings) =>
        /\ page.error = NULL
        /\ \A i, j \in 1..Len(page.records) :
              i < j => Precedes(RecordRow(page.records[i]), RecordRow(page.records[j]),
                                page.order_by, page.order_direction)
        /\ page.records # <<>> =>
              LET first_record == RecordRow(page.records[1])
                  last_record == RecordRow(page.records[Len(page.records)])
              IN  /\ page.prev_cursor =
                        Encode(Cursor(first_record.created_at, first_record.id, "backward"))
                  /\ page.has_next =>
                        page.next_cursor =
                           Encode(Cursor(last_record.created_at, last_record.id, "forward"))


\* Row r was inserted into crawl_queue before row s.
EnqueuedBefore(r, s) ==
    \/ r.discovered_at < s.discovered_at
    \/ r.discovered_at = s.discovered_at /\ r.rowid < s.rowid

\* C34: the row that get_next_crawl_item hands to the traverser is the
\* QUEUED row that was enqueued first: no other QUEUED row has an earlier
\* discovered_at, and none was inserted before it within the same second.
C34_ClaimedInDiscoveryOrder ==
    [][(pc[Traverser] = "loop" /\ pc'[Traverser] = "claimed") =>
          \A s \in queue :
              (s.status = "QUEUED" /\ s.url # cur'[Traverser].url)
                  => EnqueuedBefore(Row(cur'[Traverser].url), s)]_vars


\* C35: when the children of a stored record are looked for, the API child
\* listing is called first, at every level, and the scraper only after it,
\* when the listing raised or returned nothing.
C35_PrimaryDiscoveryFirst ==
    [][\A w \in Workers :
          (pc[w] = "processing" /\ pc'[w] = "discover") =>
             LET tried == DiscoveryMethods(scraping, cur[w].expected_level)
             IN  /\ tried # <<>>
                 /\ tried[1] = "api_client.search_record_series"
                 /\ \A i \in 2..Len(tried) :
                       tried[i] = "scraper.discover_child_records"]_vars


\* The levels in the order of descent, and levels the table does not list.
LevelHierarchy ==
    <<"Department", "Series", "Sub-series", "Sub sub-series", "Piece", "Item">>
ParentLevels ==
    {LevelHierarchy[i] : i \in 1..Len(LevelHierarchy)} \cup {"Division", NULL}
Depth(level) ==
    IF \E i \in 1..Len(LevelHierarchy) : LevelHierarchy[i] = level
       THEN CHOOSE i \in 1..Len(LevelHierarchy) : LevelHierarchy[i] = level
       ELSE 0
ExpectedChildLevel(level) ==
    IF Depth(level) \in 1..(Len(LevelHierarchy) - 1)
       THEN LevelHierarchy[Depth(level) + 1]
       ELSE "Item"

\* C36: the expected_level given to a discovered child is the next level
\* after its parent's in Department, Series, Sub-series, Sub sub-series,
\* Piece, Item, and it is Item for a parent at Item or at a level the table
\* does not list; every level has a child level, and from parent to child
\* the level never moves back towards Department.
C36_ChildLevelsDescend ==
    [][/\ \A level \in ParentLevels :
             /\ DetermineChildLevel(level) = ExpectedChildLevel(level)
             /\ Depth(DetermineChildLevel(level)) >= 1
             /\ Depth(DetermineChildLevel(level)) >= Depth(level)
       /\ \A w \in Workers : \A r \in queue' \ queue :
             (pc[w] = "discover" /\ r.parent_id = cur[w].url /\ r.status = "QUEUED"
              /\ r.retries = 0 /\ ~HasUrl(queue, r.url)) =>
                /\ r.expected_level = ExpectedChildLevel(cur[w].expected_level)
                /\ Depth(r.expected_level) >= Depth(cur[w].expected_level)]_vars

\* A chain of three descents has been enqueued: a child at Sub sub-series
\* under a parent at Sub-series.
C36_Witness ==
    \E r \in queue : \E p \in queue :
        /\ r.parent_id = p.url
        /\ p.expected_level = "Sub-series" /\ r.expected_level = "Sub sub-series"


\* C37: a key held in both tiers has in memory_cache the payload, the
\* created_at and the ttl of its row in cache_entries, so that a get of a
\* key whose row is fresh returns the payload last put under it, also when
\* the put found memory_cache full and the key already in it.
C37_TiersAgree ==
    /\ \A k \in DOMAIN memory_cache \cap DOMAIN cache_entries :
          memory_cache[k] = MemoryEntry(JsonLoads(cache_entries[k].data),
                                        cache_entries[k].created_at,
                                        cache_entries[k].ttl)
    /\ \A r \in Requests :
          LET k == GenerateCacheKey(r)
          IN (k \in DOMAIN cache_entries /\ Fresh(cache_entries[k], current_time)) =>
                Lookup(memory_cache, cache_entries, r, current_time).result
                   = JsonLoads(cache_entries[k].data)


ForwardStrings == {Encode(c) : c \in {f \in Cursors : f.direction = "forward"}}

\* The rows a page asked for with this cursor string has to go through.
Remaining(cursor_string, order_by, order_direction) ==
    IF cursor_string = NoString THEN records
    ELSE {r \in records :
             CursorCondition(r, Decode(cursor_string).cursor, order_by, order_direction)}

\* C38: a page returned by paginate_records has has_next exactly when rows
\* follow it in the order of the scan, and then its next_cursor leads to a
\* page that is not empty; so a scan along next_cursor ends after the last
\* row and not before.
C38_HasNextIffMoreRows ==
    [][(page' # page /\ page' # NoPage
        /\ page'.cursor \in ForwardStrings \cup {NoString}) =>
          /\ page'.error = NULL
          /\ page'.has_next =
                (Cardinality(Remaining(page'.cursor, page'.order_by,
                                       page'.order_direction)) > Len(page'.records))
          /\ page'.has_next =>
                PaginateRecords(records, PageSize, page'.next_cursor, page'.order_by,
                                page'.order_direction).records # <<>>]_vars


\* The row of n is COMPLETED and no child the catalogue lists for n has a
\* row: the discovery made for n raised or returned nothing.
CompletedWithoutChildren(n) ==
    /\ HasUrl(queue, n) /\ Row(n).status = "COMPLETED"
    /\ Children(n) # {}
    /\ \A c \in Children(n) : ~HasUrl(queue, c)

\* C39 as stated: a node whose child discovery raised or returned nothing
\* is COMPLETED without children, and no node below it is visited by that
\* run or a later one.
C39_SubtreeNeverVisited ==
    \A n \in Keys :
        [](CompletedWithoutChildren(n) =>
              [](\A c \in Children(n) : cur[Traverser].url # c))

\* C39, amended: a node whose child discovery raised or returned nothing is
\* written COMPLETED with no error_message and no child enqueued; a
\* COMPLETED row is never changed and never handed out again, and no later
\* discovery enqueues a child under it: a node below it gets a row only as
\* the seed of a run or from the listing of another parent.
C39_FailedDiscoveryIsFinal ==
    [][/\ (pc[Traverser] = "discover" /\ pc'[Traverser] = "loop") =>
             /\ RowIn(queue', cur[Traverser].url).status = "COMPLETED"
             /\ RowIn(queue', cur[Traverser].url).error_message = NULL
             /\ {r.url : r \in queue'} = {r.url : r \in queue}
       /\ (pc[Traverser] = "processing" /\ pc'[Traverser] = "discover") =>
             queue' = queue
       /\ \A n \in Keys :
             (HasUrl(queue, n) /\ Row(n).status = "COMPLETED") =>
                /\ RowIn(queue', n) = Row(n)
                /\ (pc[Traverser] = "loop" /\ pc'[Traverser] = "claimed")
                      => cur'[Traverser].url # n
                /\ \A r \in queue' :
                      (~HasUrl(queue, r.url) /\ runs' = runs) => r.parent_id # n]_vars

\* The department was COMPLETED after a discovery that came up empty, and a
\* later run, seeded at one of its series, holds that series.
C39_Witness ==
    /\ runs = 2
    /\ HasUrl(queue, CO_DEPARTMENT_ID)
    /\ Row(CO_DEPARTMENT_ID).status = "COMPLETED"
    /\ Row(CO_DEPARTMENT_ID).error_message = NULL
    /\ Children(CO_DEPARTMENT_ID) # {}
    /\ cur[Traverser].url \in Children(CO_DEPARTMENT_ID)
    /\ \A r \in queue : r.url # CO_DEPARTMENT_ID => r.rowid > Row(CO_DEPARTMENT_ID).rowid
    /\ Cardinality(queue) = 2


\* C40: a request given to the batch manager while the processing thread
\* runs gets a result in the end, and one only; _process_single_request
\* runs for it at most max_retries + 1 times; a retry puts it into the queue
\* one level below the one it was taken from, the low queue at the lowest;
\* and a request that has its result is in completed_results when it is
\* completed and is not in pending_requests.
C40_EachRequestOneResult ==
    /\ [][\A id \in RequestIds :
             /\ batch_requests'[id].executed <= BatchMaxRetries + 1
             /\ batch_requests'[id].results <= 1
             /\ batch_requests'[id].retries = batch_requests[id].retries + 1 =>
                   batch_requests'[id].level = Min(batch_requests[id].level + 1, 3)
             /\ batch_requests'[id].results > batch_requests[id].results =>
                   id \in DOMAIN completed_results'
             /\ batch_requests'[id].results >= 1 => id \notin pending_requests']_vars
    /\ \A id \in RequestIds :
          (batch_requests[id].added # "no") ~> (batch_requests[id].results = 1)

====
